---- MODULE Spec2Model ----
(***************************************************************************)
(* A model of pf-runner: the line-oriented runner pf.py (interpolation,    *)
(* run_host, the parallel dispatcher of main) and the richer front end     *)
(* pf_parser.py (PfInterpreter).                                           *)
(*                                                                         *)
(* Python strings are sequences of one-character strings; Python dicts are *)
(* sequences of <<key, value>> pairs with distinct keys, in insertion      *)
(* order (dict iteration order is what PfInterpreter._substitute_vars      *)
(* depends on).                                                            *)
(***************************************************************************)
EXTENDS Integers, Sequences, FiniteSets, TLC

----------------------------------------------------------------------------
(* Bounds of the model.                                                    *)

\* atoms concatenated into one interpolated text
MaxAtoms == 2
\* env assignments made before a statement is executed
MaxAssign == 2
\* lines of the selected tasks of one run, all tasks together
MaxStatements == 3
\* items of one body of the richer grammar
MaxItems == 2
\* elements of the array a for statement iterates over
MaxArray == 2

----------------------------------------------------------------------------
(* Strings and dicts.                                                      *)

\* \w of the regular expression, restricted to the characters of the model
WordChars ==
    {"a", "b", "c", "h", "u", "0", "1", "2", "3", "4", "5", "6", "7", "8", "9"}

\* dict.get(k, default)
RECURSIVE DictGet(_, _, _)
DictGet(d, k, default) ==
    IF d = <<>> THEN default
    ELSE IF Head(d)[1] = k THEN Head(d)[2]
    ELSE DictGet(Tail(d), k, default)

DictKeys(d) == {d[i][1] : i \in 1..Len(d)}

\* d[k] = v: an existing key keeps its position, a new key is appended
DictSet(d, k, v) ==
    IF k \in DictKeys(d)
    THEN [i \in 1..Len(d) |-> IF d[i][1] = k THEN <<k, v>> ELSE d[i]]
    ELSE Append(d, <<k, v>>)

\* d.update(e)
RECURSIVE DictUpdate(_, _)
DictUpdate(d, e) ==
    IF e = <<>> THEN d
    ELSE DictUpdate(DictSet(d, Head(e)[1], Head(e)[2]), Tail(e))

\* the number of consecutive word characters of s from index i on
RECURSIVE WordRun(_, _)
WordRun(s, i) ==
    IF i <= Len(s) /\ s[i] \in WordChars THEN 1 + WordRun(s, i + 1) ELSE 0

\* _VAR_RE matched at index i of s: <<length of the match, key>>, length 0
\* when there is no match. \$(\w+) is tried first, then \$\{(\w+)\}.
VarMatch(s, i) ==
    IF s[i] # "$" THEN <<0, <<>>>>
    ELSE LET n == WordRun(s, i + 1) IN
         IF n > 0 THEN <<1 + n, SubSeq(s, i + 1, i + n)>>
         ELSE IF i + 1 <= Len(s) /\ s[i + 1] = "{"
              THEN LET m == WordRun(s, i + 2) IN
                   IF m > 0 /\ i + 2 + m <= Len(s) /\ s[i + 2 + m] = "}"
                   THEN <<m + 3, SubSeq(s, i + 2, i + 1 + m)>>
                   ELSE <<0, <<>>>>
              ELSE <<0, <<>>>>

\* _VAR_RE.sub(repl, text) from index i on: one left-to-right pass, the
\* replacement text is not scanned again
RECURSIVE ReSub(_, _, _)
ReSub(s, i, merged) ==
    IF i > Len(s) THEN <<>>
    ELSE LET m == VarMatch(s, i) IN
         IF m[1] = 0 THEN <<s[i]>> \o ReSub(s, i + 1, merged)
         ELSE DictGet(merged, m[2], SubSeq(s, i, i + m[1] - 1))
              \o ReSub(s, i + m[1], merged)

\* the dict _interpolate looks names up in: os.environ, then extra_env,
\* then params
MergedSwapped(environ, params, extra_env) ==
    DictUpdate(DictUpdate(environ, params), extra_env)

Merged(environ, params, extra_env) ==
    DictUpdate(DictUpdate(environ, extra_env), params)

\* _interpolate(text, params, extra_env) under the process environment
Interpolate(text, environ, params, extra_env) ==
    ReSub(text, 1, Merged(environ, params, extra_env))

\* whether old occurs in s at index i
OccursAt(s, old, i) ==
    /\ i + Len(old) - 1 <= Len(s)
    /\ SubSeq(s, i, i + Len(old) - 1) = old

\* str.replace(old, new) from index i on: every non-overlapping occurrence,
\* left to right (old is never empty here)
RECURSIVE StrReplace(_, _, _, _)
StrReplace(s, old, new, i) ==
    IF i > Len(s) THEN <<>>
    ELSE IF OccursAt(s, old, i)
         THEN new \o StrReplace(s, old, new, i + Len(old))
         ELSE <<s[i]>> \o StrReplace(s, old, new, i + 1)

\* PfInterpreter._substitute_vars: for each item of env, in dict order,
\* replace "${name}" and then "$name" in the result so far
RECURSIVE SubstituteVars(_, _)
SubstituteVars(text, env) ==
    IF env = <<>> THEN text
    ELSE LET name == Head(env)[1]
             value == Head(env)[2]
             r1 == StrReplace(text, <<"$", "{">> \o name \o <<"}">>, value, 1)
             r2 == StrReplace(r1, <<"$">> \o name, value, 1)
         IN SubstituteVars(r2, Tail(env))

----------------------------------------------------------------------------
(* Inputs of the scope model.                                              *)

Na == <<"a">>
Nab == <<"a", "b">>
Nb == <<"b">>
Nc == <<"c">>

\* pieces a statement's text is made of
Atoms ==
    { <<"$", "a">>, <<"$", "a", "b">>, <<"$", "{", "a", "}">>,
      <<"$", "{", "a", "b", "}">>, <<"$", "c">>, <<"/">>, <<"$">> }

RECURSIVE TextsOf(_)
TextsOf(n) ==
    IF n = 1 THEN Atoms
    ELSE LET shorter == TextsOf(n - 1) IN
         shorter \cup {t \o a : t \in shorter, a \in Atoms}

Texts == TextsOf(MaxAtoms)

\* values given to variables: plain ones and ones that hold a reference
Values == { <<"1">>, <<"2">>, <<"$", "b">> }

\* os.environ
Environs == { <<>>, << <<Na, <<"8">>>>, <<Nc, <<"9">>>> >> }

\* invocation parameters k=v, in command-line order
ParamDicts ==
    { <<>>, << <<Na, <<"5">>>> >>, << <<Nab, <<"6">>>> >>,
      << <<Na, <<"$", "b">>>>, <<Nb, <<"7">>>> >> }

\* param NAME="default" declarations of a task of the richer grammar
ParamDefaults == { <<>>, << <<"param", Nb, <<"3">>>> >> }

----------------------------------------------------------------------------
(* State.                                                                  *)

VARIABLES
    \* --- scope model: one statement under one scope ---
    sFront,       \* which front end runs: "pf" (pf.py) or "parser" (pf_parser.py)
    sText,        \* the statement's text
    sEnviron,     \* os.environ
    sParams,      \* invocation parameters (params / kwargs)
    sDefaults,    \* task["params"] of the richer grammar
    sTaskEnv,     \* run_host's task_env
    sCurrentEnv,  \* PfInterpreter.current_env
    sAssigned,    \* env assignments made so far
    sRan,         \* the statement has been executed
    sCmd,         \* the command text that was run
    sHanded,      \* the environment handed to the command (merged_env)
    sPfEnv,       \* the env dict execute_task built
    \* --- dispatcher model: main's run over merged_hosts ---
    selected,     \* the (lines, params) of the selected tasks, in order
    wpc,          \* per target: the future of run_host
    wti,          \* per target: index of the task run_host is in
    wli,          \* per target: index of the next line of that task
    task_env,     \* per target: run_host's task_env
    rc,           \* per target: run_host's rc
    conn,         \* per target: the Connection's state
    closes,       \* per target: how often c.close() was called
    trace,        \* per target: the statements executed, with their commands
    result,       \* per target: what run_host returned (-1 before it returns)
    collected,    \* the futures main's as_completed loop has consumed
    rc_total,     \* main's rc_total
    mpc,          \* main: "dispatch", then "returned"
    \* --- interpreter model: PfInterpreter.execute_task on one task ---
    pBody,        \* task["body"]
    pKwargs,      \* the param=value pairs of the command line
    pEnv,         \* the env dict of this execution
    pStack,       \* the active _execute_body calls: body, index, path
    pLog,         \* the commands handed to os.system, in order
    pWhich,       \* shutil.which("rsync") finds the tool
    ppc,          \* "defined", "running", then "done"
    \* --- loader model: _load_pfy_source_with_includes on a file tree ---
    files,        \* the text files that exist: path -> lines
    visited,      \* the visited set of this load
    reads,        \* the paths handed to _read_text_file, in order
    warned,       \* the paths reported as not found, in order
    lstack,       \* the active _expand_includes_from_text calls
    dsl_src,      \* the expanded source, as its lines
    lpc,          \* "start", "expanding", then "loaded"
    \* --- parser model: parse_pfyfile_text on one text ---
    src_lines,    \* text.splitlines()
    pidx,         \* index of the line the loop is at
    tasks,        \* the tasks dict: name -> Task, in insertion order
    cur,          \* the key of the current Task in tasks, <<>> for None
    parse_pc,     \* "parsing", then "parsed" or "error"
    \* --- host resolution: main's merged_hosts ---
    env_names,    \* the env=NAME arguments, in order
    host_specs,   \* the hosts=.. / host=.. arguments, in order
    default_user, \* main's user: the user=.. argument, <<>> for None
    default_port, \* main's port: the port=.. argument, <<>> for None
    argi,         \* main's i: the arguments consumed so far
    merged_hosts, \* the resolved target list
    hpc,          \* "args", then "resolved"
    \* --- task selection: main's loop over the task arguments ---
    sel_args,     \* main's tasks: the arguments from the first task name on
    sel_j         \* main's j: the argument the loop is at

scopeVars ==
    <<sFront, sText, sEnviron, sParams, sDefaults, sTaskEnv, sCurrentEnv,
      sAssigned, sRan, sCmd, sHanded, sPfEnv>>

dispVars ==
    <<selected, wpc, wti, wli, task_env, rc, conn, closes, trace, result,
      collected, rc_total, mpc>>

interpVars == <<pBody, pKwargs, pEnv, pStack, pLog, pWhich, ppc>>

loadVars == <<files, visited, reads, warned, lstack, dsl_src, lpc>>

parseVars == <<src_lines, pidx, tasks, cur, parse_pc>>

hostVars ==
    <<env_names, host_specs, default_user, default_port, argi, merged_hosts, hpc>>

selVars == <<sel_args, sel_j>>

vars == <<scopeVars, dispVars, interpVars, loadVars, parseVars, hostVars, selVars>>

\* what the actions of one model leave alone
restOfScope ==
    <<dispVars, interpVars, loadVars, parseVars, hostVars, selVars>>
restOfDisp ==
    <<scopeVars, interpVars, loadVars, parseVars, hostVars, selVars>>
restOfInterp ==
    <<scopeVars, dispVars, loadVars, parseVars, hostVars, selVars>>
restOfLoad ==
    <<scopeVars, dispVars, interpVars, parseVars, hostVars, selVars>>
restOfParse ==
    <<scopeVars, dispVars, interpVars, loadVars, hostVars, selVars>>
restOfHosts ==
    <<scopeVars, dispVars, interpVars, loadVars, parseVars, selVars>>

restOfSelect == <<scopeVars, interpVars, loadVars, parseVars, hostVars>>

\* a model that is not running keeps its variables at these values
ScopeIdle ==
    /\ sFront = "none" /\ sText = <<>> /\ sEnviron = <<>> /\ sParams = <<>>
    /\ sDefaults = <<>> /\ sTaskEnv = <<>> /\ sCurrentEnv = <<>>
    /\ sAssigned = 0 /\ sRan = FALSE /\ sCmd = <<>> /\ sHanded = <<>>
    /\ sPfEnv = <<>>

DispIdle ==
    /\ selected = <<>> /\ wpc = <<>> /\ wti = <<>> /\ wli = <<>>
    /\ task_env = <<>> /\ rc = <<>> /\ conn = <<>> /\ closes = <<>>
    /\ trace = <<>> /\ result = <<>> /\ collected = {} /\ rc_total = 0
    /\ mpc = "idle"

InterpIdle ==
    /\ pBody = <<>> /\ pKwargs = <<>> /\ pEnv = <<>> /\ pStack = <<>>
    /\ pLog = <<>> /\ pWhich = FALSE /\ ppc = "idle"

LoadIdle ==
    /\ files = <<>> /\ visited = {} /\ reads = <<>> /\ warned = <<>>
    /\ lstack = <<>> /\ dsl_src = <<>> /\ lpc = "idle"

ParseIdle ==
    /\ src_lines = <<>> /\ pidx = 0 /\ tasks = <<>> /\ cur = <<>>
    /\ parse_pc = "idle"

HostsIdle ==
    /\ env_names = <<>> /\ host_specs = <<>> /\ merged_hosts = <<>>
    /\ default_user = <<>> /\ default_port = <<>> /\ argi = 0
    /\ hpc = "idle"

SelectIdle == sel_args = <<>> /\ sel_j = 0

\* the models that came with the loader, the parser, host resolution and
\* task selection
OthersIdle == LoadIdle /\ ParseIdle /\ HostsIdle /\ SelectIdle

----------------------------------------------------------------------------
(* pf.py: run_host's env lines and _exec_line_fabric's shell verb.         *)

\* the loop over the tokens of an env line: task_env[k] = _interpolate(v,
\* params, task_env), left to right
RECURSIVE EnvLine(_, _, _, _)
EnvLine(tenv, environ, params, assigns) ==
    IF assigns = <<>> THEN tenv
    ELSE EnvLine(DictSet(tenv, Head(assigns)[1],
                         Interpolate(Head(assigns)[2], environ, params, tenv)),
                 environ, params, Tail(assigns))

\* run(): merged_env = dict(os.environ) updated with every tenv value
\* interpolated again
RECURSIVE InterpolatedItems(_, _, _, _)
InterpolatedItems(items, environ, params, tenv) ==
    IF items = <<>> THEN <<>>
    ELSE << <<Head(items)[1],
              Interpolate(Head(items)[2], environ, params, tenv)>> >>
         \o InterpolatedItems(Tail(items), environ, params, tenv)

MergedEnv(environ, params, tenv) ==
    DictUpdate(environ, InterpolatedItems(tenv, environ, params, tenv))

\* one or two assignments of one env line
Assignments ==
    LET one == {<< <<k, v>> >> : k \in {Na, Nb}, v \in Values} IN
    one \cup {x \o y : x \in one, y \in one}

RunHostEnv(assigns) ==
    /\ sFront = "pf"
    /\ ~sRan
    /\ sAssigned + Len(assigns) <= MaxAssign
    /\ sTaskEnv' = EnvLine(sTaskEnv, sEnviron, sParams, assigns)
    /\ sAssigned' = sAssigned + Len(assigns)
    /\ UNCHANGED restOfScope
    /\ UNCHANGED <<sFront, sText, sEnviron, sParams, sDefaults, sCurrentEnv,
                   sRan, sCmd, sHanded, sPfEnv>>

\* "shell <text>" on the local target: the text has no blanks or quotes, so
\* shlex.split and " ".join give the interpolated text back
ExecShell ==
    /\ sFront = "pf"
    /\ ~sRan
    /\ sRan' = TRUE
    /\ sCmd' = Interpolate(sText, sEnviron, sParams, sTaskEnv)
    /\ sHanded' = MergedEnv(sEnviron, sParams, sTaskEnv)
    /\ UNCHANGED restOfScope
    /\ UNCHANGED <<sFront, sText, sEnviron, sParams, sDefaults, sTaskEnv,
                   sCurrentEnv, sAssigned, sPfEnv>>

----------------------------------------------------------------------------
(* pf_parser.py: env_var, execute_task and the shell item.                 *)

\* the loop over task["params"]: a default applies when the name is not
\* in env yet
RECURSIVE ApplyDefaults(_, _)
ApplyDefaults(env, params) ==
    IF params = <<>> THEN env
    ELSE LET name == Head(params)[2]
             value == Head(params)[3]
         IN ApplyDefaults(IF name \in DictKeys(env) THEN env
                          ELSE DictSet(env, name, value),
                          Tail(params))

\* execute_task: env = current_env.copy(); env.update(kwargs); defaults
TaskScope(current_env, kwargs, params) ==
    ApplyDefaults(DictUpdate(current_env, kwargs), params)

\* env_var: NAME = "value" stores the value without its quotes
EnvVar(name, value) ==
    /\ sFront = "parser"
    /\ ~sRan
    /\ sAssigned < MaxAssign
    /\ sCurrentEnv' = DictSet(sCurrentEnv, name, value)
    /\ sAssigned' = sAssigned + 1
    /\ UNCHANGED restOfScope
    /\ UNCHANGED <<sFront, sText, sEnviron, sParams, sDefaults, sTaskEnv,
                   sRan, sCmd, sHanded, sPfEnv>>

\* execute_task on a task whose body is one shell item
ExecuteTask ==
    /\ sFront = "parser"
    /\ ~sRan
    /\ sRan' = TRUE
    /\ sPfEnv' = TaskScope(sCurrentEnv, sParams, sDefaults)
    /\ sCmd' = SubstituteVars(sText, TaskScope(sCurrentEnv, sParams, sDefaults))
    /\ UNCHANGED restOfScope
    /\ UNCHANGED <<sFront, sText, sEnviron, sParams, sDefaults, sTaskEnv,
                   sCurrentEnv, sAssigned, sHanded>>

ScopeInit ==
    /\ sFront \in {"pf", "parser"}
    /\ sText \in Texts
    /\ sEnviron \in Environs
    /\ sParams \in ParamDicts
    /\ sDefaults \in ParamDefaults
    /\ sTaskEnv = <<>>
    /\ sCurrentEnv = <<>>
    /\ sAssigned = 0
    /\ sRan = FALSE
    /\ sCmd = <<>>
    /\ sHanded = <<>>
    /\ sPfEnv = <<>>
    /\ DispIdle
    /\ InterpIdle
    /\ OthersIdle

ScopeNext ==
    \/ \E assigns \in Assignments : RunHostEnv(assigns)
    \/ ExecShell
    \/ \E k \in {Na, Nab, Nb}, v \in Values : EnvVar(k, v)
    \/ ExecuteTask

SpecScope == ScopeInit /\ [][ScopeNext]_vars

----------------------------------------------------------------------------
(* Claims about scoping and interpolation, checked under SpecScope.        *)

RefNames == {Na, Nab, Nb, Nc}

\* text is exactly one reference to name n
IsRef(text, n) ==
    \/ text = <<"$">> \o n
    \/ text = <<"$", "{">> \o n \o <<"}">>

\* the value of n in the first dict of layers that defines it
RECURSIVE FirstDefined(_, _, _)
FirstDefined(layers, n, default) ==
    IF layers = <<>> THEN default
    ELSE IF n \in DictKeys(Head(layers)) THEN DictGet(Head(layers), n, default)
    ELSE FirstDefined(Tail(layers), n, default)

\* task["params"] as a dict of defaults
DefaultsDict(params) == [i \in 1..Len(params) |-> <<params[i][2], params[i][3]>>]

\* C6 (as amended): a reference to a name defined in several layers is
\* replaced by the value of the highest layer that defines it, the layers
\* being, highest first, invocation parameters, env assignments, process
\* environment in pf.py; and invocation parameters, env variables,
\* declared defaults in the scope execute_task builds.
C6_ParamsShadowEnv ==
    /\ (sRan /\ sFront = "pf") =>
          \A n \in RefNames :
              IsRef(sText, n) =>
                  sCmd = FirstDefined(<<sParams, sTaskEnv, sEnviron>>, n, sText)
    /\ (sRan /\ sFront = "parser") =>
          \A n \in RefNames :
              DictGet(sPfEnv, n, <<"?">>) =
                  FirstDefined(<<sParams, sCurrentEnv, DefaultsDict(sDefaults)>>,
                               n, <<"?">>)

\* C6 witness: a name defined in all three layers of pf.py, with three
\* different values, was interpolated
C6_Witness ==
    /\ sRan /\ sFront = "pf"
    /\ IsRef(sText, Na)
    /\ {Na} \subseteq (DictKeys(sParams) \cap DictKeys(sTaskEnv) \cap DictKeys(sEnviron))
    /\ Cardinality({DictGet(sParams, Na, <<>>), DictGet(sTaskEnv, Na, <<>>),
                    DictGet(sEnviron, Na, <<>>)}) = 3
    /\ sCmd = DictGet(sParams, Na, <<>>)

\* C6 (as claimed): the innermost layer wins, task-local env assignments
\* being inside invocation parameters, inside the process environment
C6_EnvShadowsParams ==
    /\ (sRan /\ sFront = "pf") =>
          \A n \in RefNames :
              IsRef(sText, n) =>
                  sCmd = FirstDefined(<<sTaskEnv, sParams, sEnviron>>, n, sText)
    /\ (sRan /\ sFront = "parser") =>
          \A n \in RefNames :
              DictGet(sPfEnv, n, <<"?">>) =
                  FirstDefined(<<sCurrentEnv, sParams, DefaultsDict(sDefaults)>>,
                               n, <<"?">>)

\* no value of env holds a "$"
PlainValues(env) ==
    \A i \in 1..Len(env) : \A j \in 1..Len(env[i][2]) : env[i][2][j] # "$"

\* C7: both interpolators give the text with every $name / ${name} replaced
\* by the scope's value for that full name, and everything else verbatim
\* (stated for the richer grammar on scopes of plain values, where a second
\* expansion of a value cannot be what makes the difference).
C7_FullNameSubstitution ==
    /\ (sRan /\ sFront = "pf") =>
          sCmd = ReSub(sText, 1, DictUpdate(DictUpdate(sEnviron, sTaskEnv), sParams))
    /\ (sRan /\ sFront = "parser" /\ PlainValues(sPfEnv)) =>
          sCmd = ReSub(sText, 1, sPfEnv)

\* no key of env other than n is a prefix of n
NoPrefixKey(env, n) ==
    \A k \in DictKeys(env) \ {n} :
        ~(Len(k) <= Len(n) /\ SubSeq(n, 1, Len(k)) = k)

\* C8: a substituted value is never expanded again: a reference in a
\* statement's text becomes the scope's value as it stands, an env value
\* reaches the command as it was stored, and likewise in the richer grammar
C8_InterpolatedOnce ==
    /\ (sRan /\ sFront = "pf") =>
          /\ \A n \in RefNames :
                 (IsRef(sText, n) /\ n \in DictKeys(Merged(sEnviron, sParams, sTaskEnv)))
                     => sCmd = DictGet(Merged(sEnviron, sParams, sTaskEnv), n, <<>>)
          /\ \A k \in DictKeys(sTaskEnv) :
                 DictGet(sHanded, k, <<>>) = DictGet(sTaskEnv, k, <<>>)
    /\ (sRan /\ sFront = "parser") =>
          \A n \in RefNames :
              (IsRef(sText, n) /\ n \in DictKeys(sPfEnv) /\ NoPrefixKey(sPfEnv, n))
                  => sCmd = DictGet(sPfEnv, n, <<>>)

----------------------------------------------------------------------------
(* The dispatcher: main's thread pool over merged_hosts, run_host on each  *)
(* target and _exec_line_fabric on each line.                              *)

\* merged_hosts after _parse_host: a remote target and the local one
HostPool == << [local |-> FALSE], [local |-> TRUE] >>

Targets == 1..Len(HostPool)

\* exit statuses a command can end with
ExitCodes == {0, 2}

\* the lines a task is made of. "shell" stands for the verbs that run one
\* command and return its status (shell, packages, service); "envbad" is an
\* env line shlex cannot split (an unclosed quote); "bogus" is no verb.
Lines ==
    { [op |-> "shell", arg |-> <<"$", "a">>],
      [op |-> "env", assigns |-> << <<Na, <<"1">>>>, <<Nb, <<"$", "a">>>> >>],
      [op |-> "envbad"],
      [op |-> "directory", mode |-> TRUE],
      [op |-> "copy", mode |-> TRUE, owner |-> FALSE],
      [op |-> "bogus"] }

RECURSIVE SeqsOfLen(_, _)
SeqsOfLen(S, n) ==
    IF n = 0 THEN {<<>>}
    ELSE {Append(q, x) : q \in SeqsOfLen(S, n - 1), x \in S}

\* (lines, params) of a selected task of k lines; the task name plays no part
SelectedTasks(k) == {[lines |-> l, params |-> <<>>] : l \in SeqsOfLen(Lines, k)}

\* the sequences of tasks of at most n lines in all, no task empty
RECURSIVE ProgramsUpTo(_)
ProgramsUpTo(n) ==
    {<<>>} \cup
    UNION { {<<t>> \o q : t \in SelectedTasks(k), q \in ProgramsUpTo(n - k)} :
            k \in 1..n }

Programs == ProgramsUpTo(MaxStatements) \ {<<>>}

\* os.environ of the dispatcher's process
DispEnviron == <<>>

\* run(cmd) was called with these exit statuses, in order, and the
\* statement returned ret, or raised (ret is then 1, what run_host returns)
Outcome(cmds, raised, ret) == [cmds |-> cmds, raised |-> raised, ret |-> ret]

\* line 473: the statement failed
StopsOnOne(r) == r = 1

StopsOn(r) == r # 0

\* _exec_line_fabric(c, ln, ...): the outcomes the line can have
ExecLineFabric(ln, params, env) ==
    CASE ln.op = "shell" ->
           IF Interpolate(ln.arg, DispEnviron, params, env) = <<>>
           THEN {Outcome(<<>>, TRUE, 1)}
           ELSE {Outcome(<<r>>, FALSE, r) : r \in ExitCodes}
      [] ln.op = "directory" ->
           {Outcome(<<r>>, FALSE, r) : r \in ExitCodes \ {0}}
           \cup (IF ln.mode
                 THEN {Outcome(<<0, r>>, FALSE, r) : r \in ExitCodes}
                 ELSE {Outcome(<<0>>, FALSE, 0)})
      [] ln.op = "copy" ->
           \* the transfer (shutil.copyfile / c.put) may raise; the statuses
           \* of chmod and chown are dropped
           {Outcome(<<>>, TRUE, 1)}
           \cup {Outcome(a \o b, FALSE, 0) :
                   a \in (IF ln.mode THEN {<<r>> : r \in ExitCodes} ELSE {<<>>}),
                   b \in (IF ln.owner THEN {<<r>> : r \in ExitCodes} ELSE {<<>>})}
      [] OTHER -> {Outcome(<<>>, TRUE, 1)}

\* the position after line li of task ti: the next line, or the first line
\* of the next task with an empty task_env
AtLastLine(ti, li) == li >= Len(selected[ti].lines)

\* a task loop that takes task_env over into the next task
AdvanceKeepsEnv(h, env) ==
    IF AtLastLine(wti[h], wli[h])
    THEN /\ wti' = [wti EXCEPT ![h] = @ + 1]
         /\ wli' = [wli EXCEPT ![h] = 1]
         /\ task_env' = [task_env EXCEPT ![h] = env]
    ELSE /\ wli' = [wli EXCEPT ![h] = @ + 1]
         /\ task_env' = [task_env EXCEPT ![h] = env]
         /\ UNCHANGED wti

\* a task loop that leaves after the first task
AdvanceSkipsTasks(h, env) ==
    IF AtLastLine(wti[h], wli[h])
    THEN /\ wti' = [wti EXCEPT ![h] = Len(selected) + 1]
         /\ wli' = [wli EXCEPT ![h] = 1]
         /\ task_env' = [task_env EXCEPT ![h] = <<>>]
    ELSE /\ wli' = [wli EXCEPT ![h] = @ + 1]
         /\ task_env' = [task_env EXCEPT ![h] = env]
         /\ UNCHANGED wti

Advance(h, env) ==
    IF AtLastLine(wti[h], wli[h])
    THEN /\ wti' = [wti EXCEPT ![h] = @ + 1]
         /\ wli' = [wli EXCEPT ![h] = 1]
         /\ task_env' = [task_env EXCEPT ![h] = <<>>]
    ELSE /\ wli' = [wli EXCEPT ![h] = @ + 1]
         /\ task_env' = [task_env EXCEPT ![h] = env]
         /\ UNCHANGED wti

Running(h) == wpc[h] = "running" /\ wti[h] <= Len(selected)

CurLine(h) == selected[wti[h]].lines[wli[h]]

Entry(h, out) ==
    [task |-> wti[h], line |-> wli[h], env |-> task_env[h], cmds |-> out.cmds,
     raised |-> out.raised, ret |-> out.ret]

\* run_host up to the task loop, local target: no connection is made
StartLocal(h) ==
    /\ mpc = "dispatch" /\ wpc[h] = "submitted"
    /\ HostPool[h].local
    /\ wpc' = [wpc EXCEPT ![h] = "running"]
    /\ UNCHANGED <<selected, wti, wli, task_env, rc, conn, closes, trace,
                   result, collected, rc_total, mpc>>
    /\ UNCHANGED restOfDisp

\* c.open() succeeds
OpenOk(h) ==
    /\ mpc = "dispatch" /\ wpc[h] = "submitted"
    /\ ~HostPool[h].local
    /\ wpc' = [wpc EXCEPT ![h] = "running"]
    /\ conn' = [conn EXCEPT ![h] = "open"]
    /\ UNCHANGED <<selected, wti, wli, task_env, rc, closes, trace, result,
                   collected, rc_total, mpc>>
    /\ UNCHANGED restOfDisp

\* a c.open() that raises, were run_host to carry on with the task loop
OpenFailsCarryOn(h) ==
    /\ mpc = "dispatch" /\ wpc[h] = "submitted"
    /\ ~HostPool[h].local
    /\ wpc' = [wpc EXCEPT ![h] = "running"]
    /\ conn' = [conn EXCEPT ![h] = "failed"]
    /\ UNCHANGED <<selected, wti, wli, task_env, rc, closes, trace, result,
                   collected, rc_total, mpc>>
    /\ UNCHANGED restOfDisp

\* c.open() raises: the connect error is printed and run_host returns 1
OpenFails(h) ==
    /\ mpc = "dispatch" /\ wpc[h] = "submitted"
    /\ ~HostPool[h].local
    /\ wpc' = [wpc EXCEPT ![h] = "returned"]
    /\ conn' = [conn EXCEPT ![h] = "failed"]
    /\ result' = [result EXCEPT ![h] = 1]
    /\ UNCHANGED <<selected, wti, wli, task_env, rc, closes, trace,
                   collected, rc_total, mpc>>
    /\ UNCHANGED restOfDisp

\* an env line, were task_env one dict that every run_host call writes to
EnvStatementShared(h) ==
    /\ Running(h) /\ CurLine(h).op = "env"
    /\ IF AtLastLine(wti[h], wli[h])
       THEN /\ wti' = [wti EXCEPT ![h] = @ + 1]
            /\ wli' = [wli EXCEPT ![h] = 1]
            /\ task_env' = [g \in Targets |-> <<>>]
       ELSE /\ wli' = [wli EXCEPT ![h] = @ + 1]
            /\ task_env' =
                  [g \in Targets |->
                      EnvLine(task_env[h], DispEnviron, selected[wti[h]].params,
                              CurLine(h).assigns)]
            /\ UNCHANGED wti
    /\ UNCHANGED <<selected, wpc, rc, conn, closes, trace, result, collected,
                   rc_total, mpc>>
    /\ UNCHANGED restOfDisp

\* an env line: its assignments go into task_env and the loop continues
EnvStatement(h) ==
    /\ Running(h) /\ CurLine(h).op = "env"
    /\ Advance(h, EnvLine(task_env[h], DispEnviron, selected[wti[h]].params,
                          CurLine(h).assigns))
    /\ UNCHANGED <<selected, wpc, rc, conn, closes, trace, result, collected,
                   rc_total, mpc>>
    /\ UNCHANGED restOfDisp

\* an env line shlex.split rejects: the ValueError is raised outside the
\* try of the loop and leaves run_host
EnvStatementRaises(h) ==
    /\ Running(h) /\ CurLine(h).op = "envbad"
    /\ wpc' = [wpc EXCEPT ![h] = "raised"]
    /\ trace' = [trace EXCEPT ![h] = Append(@, Entry(h, Outcome(<<>>, TRUE, 1)))]
    /\ UNCHANGED <<selected, wti, wli, task_env, rc, conn, closes, result,
                   collected, rc_total, mpc>>
    /\ UNCHANGED restOfDisp

\* any other line, _exec_line_fabric returns 0: on to the next line
StatementOk(h) ==
    /\ Running(h) /\ CurLine(h).op \notin {"env", "envbad"}
    /\ \E out \in ExecLineFabric(CurLine(h), selected[wti[h]].params, task_env[h]) :
          /\ ~out.raised /\ ~StopsOn(out.ret)
          /\ trace' = [trace EXCEPT ![h] = Append(@, Entry(h, out))]
          /\ rc' = [rc EXCEPT ![h] = out.ret]
    /\ Advance(h, task_env[h])
    /\ UNCHANGED <<selected, wpc, conn, closes, result, collected, rc_total, mpc>>
    /\ UNCHANGED restOfDisp

\* _exec_line_fabric returns rc != 0: run_host returns rc
StatementFails(h) ==
    /\ Running(h) /\ CurLine(h).op \notin {"env", "envbad"}
    /\ \E out \in ExecLineFabric(CurLine(h), selected[wti[h]].params, task_env[h]) :
          /\ ~out.raised /\ StopsOn(out.ret)
          /\ trace' = [trace EXCEPT ![h] = Append(@, Entry(h, out))]
          /\ rc' = [rc EXCEPT ![h] = out.ret]
          /\ result' = [result EXCEPT ![h] = out.ret]
    /\ wpc' = [wpc EXCEPT ![h] = "returned"]
    /\ UNCHANGED <<selected, wti, wli, task_env, conn, closes, collected,
                   rc_total, mpc>>
    /\ UNCHANGED restOfDisp

\* _exec_line_fabric raises: the error is printed and run_host returns 1
StatementRaises(h) ==
    /\ Running(h) /\ CurLine(h).op \notin {"env", "envbad"}
    /\ \E out \in ExecLineFabric(CurLine(h), selected[wti[h]].params, task_env[h]) :
          /\ out.raised
          /\ trace' = [trace EXCEPT ![h] = Append(@, Entry(h, out))]
    /\ result' = [result EXCEPT ![h] = 1]
    /\ wpc' = [wpc EXCEPT ![h] = "returned"]
    /\ UNCHANGED <<selected, wti, wli, task_env, rc, conn, closes, collected,
                   rc_total, mpc>>
    /\ UNCHANGED restOfDisp

\* the task loop is over: c.close() on a remote target, return rc
Finish(h) ==
    /\ wpc[h] = "running" /\ wti[h] > Len(selected)
    /\ IF HostPool[h].local
       THEN UNCHANGED <<conn, closes>>
       ELSE /\ conn' = [conn EXCEPT ![h] = "closed"]
            /\ closes' = [closes EXCEPT ![h] = @ + 1]
    /\ result' = [result EXCEPT ![h] = rc[h]]
    /\ wpc' = [wpc EXCEPT ![h] = "returned"]
    /\ UNCHANGED <<selected, wti, wli, task_env, rc, trace, collected,
                   rc_total, mpc>>
    /\ UNCHANGED restOfDisp

\* fut.result() where an exception that left run_host sets no failure
FutureRcSwallowed(state, value) == IF state = "raised" THEN 0 ELSE value

\* fut.result(), or 1 when run_host raised
FutureRc(state, value) == IF state = "raised" THEN 1 ELSE value

\* rc_total = rc
PyOrLast(a, b) == b

\* Python's a or b on ints
PyOr(a, b) == IF a # 0 THEN a ELSE b

\* one turn of the as_completed loop: a finished future is folded in
Collect(h) ==
    /\ mpc = "dispatch" /\ h \notin collected
    /\ wpc[h] \in {"returned", "raised"}
    /\ collected' = collected \cup {h}
    /\ rc_total' = PyOr(rc_total, FutureRc(wpc[h], result[h]))
    /\ UNCHANGED <<selected, wpc, wti, wli, task_env, rc, conn, closes, trace,
                   result, mpc>>
    /\ UNCHANGED restOfDisp

\* a main that returns once the first future has completed
MainReturnEarly ==
    /\ mpc = "dispatch" /\ collected # {}
    /\ mpc' = "returned"
    /\ UNCHANGED <<selected, wpc, wti, wli, task_env, rc, conn, closes, trace,
                   result, collected, rc_total>>
    /\ UNCHANGED restOfDisp

\* every future was consumed: the pool shuts down and main returns rc_total
MainReturn ==
    /\ mpc = "dispatch" /\ collected = Targets
    /\ mpc' = "returned"
    /\ UNCHANGED <<selected, wpc, wti, wli, task_env, rc, conn, closes, trace,
                   result, collected, rc_total>>
    /\ UNCHANGED restOfDisp

\* main after the selected tasks were resolved: every run_host is submitted
Init ==
    /\ selected \in Programs
    /\ wpc = [h \in Targets |-> "submitted"]
    /\ wti = [h \in Targets |-> 1]
    /\ wli = [h \in Targets |-> 1]
    /\ task_env = [h \in Targets |-> <<>>]
    /\ rc = [h \in Targets |-> 0]
    /\ conn = [h \in Targets |-> "none"]
    /\ closes = [h \in Targets |-> 0]
    /\ trace = [h \in Targets |-> <<>>]
    /\ result = [h \in Targets |-> -1]
    /\ collected = {}
    /\ rc_total = 0
    /\ mpc = "dispatch"
    /\ ScopeIdle
    /\ InterpIdle
    /\ OthersIdle

Next ==
    \/ \E h \in Targets :
          \/ StartLocal(h)
          \/ OpenOk(h)
          \/ OpenFails(h)
          \/ EnvStatement(h)
          \/ EnvStatementRaises(h)
          \/ StatementOk(h)
          \/ StatementFails(h)
          \/ StatementRaises(h)
          \/ Finish(h)
          \/ Collect(h)
    \/ MainReturn

Spec == Init /\ [][Next]_vars

----------------------------------------------------------------------------
(* Claims about run_host and the dispatcher, checked under Spec.           *)

\* the lines of task ti from line li on that reach the try block of
\* run_host or raise: all but the well-formed env lines
RECURSIVE FlatFrom(_, _)
FlatFrom(ti, li) ==
    IF ti > Len(selected) THEN <<>>
    ELSE IF li > Len(selected[ti].lines) THEN FlatFrom(ti + 1, 1)
    ELSE (IF selected[ti].lines[li].op = "env" THEN <<>> ELSE << <<ti, li>> >>)
         \o FlatFrom(ti, li + 1)

Flat == FlatFrom(1, 1)

Finished(h) == wpc[h] \in {"returned", "raised"}

Failed(e) == e.raised \/ e.ret # 0

\* the trace of target h is a run of the selected tasks, in order, that
\* stopped only at a failure of its own
OwnSequence(h) ==
    LET flat == Flat
        n == Len(trace[h])
    IN /\ n <= Len(flat)
       /\ \A i \in 1..n :
             /\ <<trace[h][i].task, trace[h][i].line>> = flat[i]
             /\ i < n => ~Failed(trace[h][i])
       /\ Finished(h) => (n = Len(flat) \/ (n > 0 /\ Failed(trace[h][n])))

\* every step run_host can take on target h
WorkerStep(h) ==
    \/ StartLocal(h) \/ OpenOk(h) \/ OpenFails(h) \/ EnvStatement(h)
    \/ EnvStatementRaises(h) \/ StatementOk(h) \/ StatementFails(h)
    \/ StatementRaises(h) \/ Finish(h)

\* C1: a statement that returned a non-zero exit code is the last one its
\* target executed, and run_host returned that code for the target.
C1_FailFast ==
    \A h \in Targets : \A i \in 1..Len(trace[h]) :
        (~trace[h][i].raised /\ trace[h][i].ret # 0) =>
            /\ i = Len(trace[h])
            /\ wpc[h] = "returned"
            /\ result[h] = trace[h][i].ret

\* C1 witness: a task [S1 succeeds, S2 fails, S3], of which S1 and S2 ran
C1_Witness ==
    \E h \in Targets :
        /\ mpc = "returned"
        /\ Len(selected[1].lines) = 3
        /\ selected[1].lines[3].op = "shell"
        /\ Len(trace[h]) = 2
        /\ trace[h][1].ret = 0 /\ ~trace[h][1].raised
        /\ trace[h][2].ret = 2 /\ ~trace[h][2].raised
        /\ result[h] = 2

\* C2: a target whose session could not be opened executes nothing and is
\* failed; every other target runs its own sequence to its end, is never
\* blocked, and the aggregate result is non-zero.
C2_ConnectFailureIsolated ==
    /\ \A h \in Targets :
          conn[h] = "failed" =>
              trace[h] = <<>> /\ wpc[h] = "returned" /\ result[h] # 0
    /\ (\E h \in Targets : conn[h] = "failed") =>
          /\ \A g \in Targets :
                /\ conn[g] # "failed" => OwnSequence(g)
                /\ ~Finished(g) => ENABLED WorkerStep(g)
          /\ mpc = "returned" =>
                rc_total # 0 /\ \A g \in Targets : Finished(g)

\* C2 witness: T1 failed to connect, T2 ran two tasks to the end
C2_Witness ==
    /\ mpc = "returned"
    /\ conn[1] = "failed"
    /\ Len(selected) = 2
    /\ Len(Flat) >= 2
    /\ Len(trace[2]) = Len(Flat)
    /\ result[2] = 0
    /\ rc_total # 0

\* the target failed, as the dispatcher sees it
TargetFailed(h) == wpc[h] = "raised" \/ (wpc[h] = "returned" /\ result[h] # 0)

\* C3: the aggregate is zero iff every target's result is zero, and it is
\* non-zero from the moment a failed target was folded in.
C3_AggregateIsOr ==
    /\ mpc = "returned" =>
          /\ collected = Targets
          /\ rc_total = 0 <=> \A h \in Targets : ~TargetFailed(h)
    /\ \A h \in collected : TargetFailed(h) => rc_total # 0

\* C3 witness: the first target failed, the second succeeded
C3_Witness ==
    /\ mpc = "returned"
    /\ wpc[1] = "returned" /\ result[1] = 2
    /\ wpc[2] = "returned" /\ result[2] = 0
    /\ rc_total = 2

\* C4: a session that was opened has been closed exactly once when the
\* target's worker has finished.
C4_SessionClosedOnce ==
    \A h \in Targets :
        (Finished(h) /\ conn[h] \in {"open", "closed"}) =>
            conn[h] = "closed" /\ closes[h] = 1

\* a statement raised on some target
SomeRaised ==
    \E h \in Targets : \E i \in 1..Len(trace[h]) : trace[h][i].raised

\* C5: a statement that raised is the last one of its target and makes the
\* target's result non-zero; once a statement has raised anywhere, every
\* target still runs its own sequence and is never blocked, and the
\* dispatcher can always go on, up to returning with every target folded in.
C5_FaultIsolation ==
    /\ \A h \in Targets : \A i \in 1..Len(trace[h]) :
          trace[h][i].raised =>
              /\ i = Len(trace[h])
              /\ Finished(h)
              /\ wpc[h] = "returned" => result[h] # 0
              /\ h \in collected => rc_total # 0
    /\ SomeRaised =>
          /\ \A g \in Targets :
                /\ conn[g] # "failed" => OwnSequence(g)
                /\ ~Finished(g) => ENABLED WorkerStep(g)
          /\ mpc = "dispatch" => ENABLED Next
          /\ mpc = "returned" => \A g \in Targets : Finished(g) /\ g \in collected

\* C5 witness: a statement raised on T1 only, T2 ran every statement
C5_Witness ==
    /\ mpc = "returned"
    /\ Len(trace[1]) > 0 /\ trace[1][Len(trace[1])].raised
    /\ Len(Flat) >= 2
    /\ Len(trace[2]) = Len(Flat)
    /\ result[2] = 0
    /\ rc_total = 1

\* C9: a statement returns zero iff every command it ran exited with zero.
C9_NoSwallowedFailure ==
    \A h \in Targets : \A i \in 1..Len(trace[h]) :
        ~trace[h][i].raised =>
            (trace[h][i].ret = 0 <=>
                \A j \in 1..Len(trace[h][i].cmds) : trace[h][i].cmds[j] = 0)

----------------------------------------------------------------------------
(* pf_parser.py: PfInterpreter.execute_task and _execute_body.             *)

\* a body item is the tuple a transformer method returned ("tuple"), or a
\* Tree whose first child is that tuple ("tree")
Forms == {"tuple", "tree"}

Item(form, cmd) == [form |-> form, cmd |-> cmd]

\* ("shell", command), ("describe", text)
ShellCmd(text) == [type |-> "shell", text |-> text]
DescribeCmd == [type |-> "describe"]

\* ("for", var_name, iterable, body)
ForCmd(var, iterable, body) ==
    [type |-> "for", var |-> var, iterable |-> iterable, body |-> body]

\* ("if", condition, if_body, else_body)
IfCmd(cond, if_body, else_body) ==
    [type |-> "if", cond |-> cond, if_body |-> if_body, else_body |-> else_body]

\* the three conditions
CommandSucceeds(text) == [ctype |-> "command_succeeds", text |-> text]
VarExists(var) == [ctype |-> "var_exists", var |-> var]
VarEquals(var, op, expected) ==
    [ctype |-> "var_equals", var |-> var, op |-> op, expected |-> expected]

Conds ==
    { CommandSucceeds(<<"$", "a">>), VarExists(Na), VarEquals(Na, "==", <<"1">>) }

\* array(): the first n of these strings
ElemPool == << <<"1">>, <<"2">>, <<"3">>, <<"4">> >>
Arrays == {SubSeq(ElemPool, 1, n) : n \in 0..MaxArray}

TreeShell == Item("tree", ShellCmd(<<"$", "a">>))

InnerBodies == { <<>>, <<TreeShell>> }

NestedIf ==
    Item("tree", IfCmd(CommandSucceeds(<<"$", "a">>), <<TreeShell>>, <<TreeShell>>))

IfItems ==
    { Item(f, IfCmd(c, tb, eb)) :
        f \in Forms, c \in Conds,
        tb \in InnerBodies \cup {<<NestedIf>>}, eb \in InnerBodies }

ForItems ==
    { Item(f, ForCmd(Na, arr, b)) :
        f \in Forms, arr \in Arrays,
        b \in { <<TreeShell>>,
                <<Item("tree", IfCmd(CommandSucceeds(<<"$", "a">>), <<>>, <<>>))>> } }

\* the values sync_kv gives an option: a string, a list of strings, True for
\* a bare flag; NoOpt is a key that opts does not hold
NoOpt == [kind |-> "none", val |-> <<>>]
StrOpt(v) == [kind |-> "str", val |-> v]
ListOpt(l) == [kind |-> "list", val |-> l]
FlagOpt == [kind |-> "flag", val |-> <<>>]

\* ("sync", opts)
SyncCmd(opts) == [type |-> "sync", opts |-> opts]

\* opts of a sync statement: every key, NoOpt for one not given
SyncOpts(src, dest, host, user, port, excludes, exclude_file, delete, dry, verbose) ==
    [src |-> src, dest |-> dest, host |-> host, user |-> user, port |-> port,
     excludes |-> excludes, exclude_file |-> exclude_file, delete |-> delete,
     dry |-> dry, verbose |-> verbose]

\* sync a/ to b/ on this machine, and the same with no dest
SyncItems ==
    { Item(f, SyncCmd(SyncOpts(StrOpt(<<"a", "/">>), d, NoOpt, NoOpt, NoOpt, NoOpt,
                               NoOpt, NoOpt, NoOpt, NoOpt))) :
        f \in Forms, d \in {StrOpt(<<"b", "/">>), NoOpt} }

Items ==
    {Item(f, c) : f \in Forms, c \in {ShellCmd(<<"$", "a">>), DescribeCmd}}
    \cup IfItems \cup ForItems \cup SyncItems

RECURSIVE SeqsUpTo(_, _)
SeqsUpTo(S, n) ==
    IF n = 0 THEN {<<>>}
    ELSE LET shorter == SeqsUpTo(S, n - 1) IN
         shorter \cup {Append(q, x) : q \in shorter, x \in S}

Bodies == SeqsUpTo(Items, MaxItems) \ {<<>>}

Kwargs == { <<>>, << <<Na, <<"1">>>> >> }

\* the innermost active _execute_body call and the item it is at
Top == pStack[Len(pStack)]
AtItem == ppc = "running" /\ pStack # <<>> /\ Top.idx <= Len(Top.body)
CurItem == Top.body[Top.idx]
CurPath == Top.path \o <<Top.idx>>

\* the stack with the innermost call moved on to its next item
Stepped == [pStack EXCEPT ![Len(pStack)].idx = @ + 1]

Frame(body, path) == [body |-> body, idx |-> 1, path |-> path]

\* one os.system call
Ran(path, kind, cmd, status) ==
    [path |-> path, kind |-> kind, cmd |-> cmd, status |-> status]

\* execute_task(task_name, **kwargs)
PfExecuteTask ==
    /\ ppc = "defined"
    /\ ppc' = "running"
    /\ pEnv' = TaskScope(<<>>, pKwargs, <<>>)
    /\ pStack' = <<Frame(pBody, <<>>)>>
    /\ UNCHANGED <<pBody, pKwargs, pWhich, pLog>>
    /\ UNCHANGED restOfInterp

\* a describe item, in either form: printed
PfDescribe ==
    /\ AtItem /\ CurItem.cmd.type = "describe"
    /\ pStack' = Stepped
    /\ UNCHANGED <<pBody, pKwargs, pWhich, pEnv, pLog, ppc>>
    /\ UNCHANGED restOfInterp

\* a shell item, in either form: the command is run and its status printed
PfShell ==
    /\ AtItem /\ CurItem.cmd.type = "shell"
    /\ \E status \in ExitCodes :
          pLog' = Append(pLog, Ran(CurPath, "shell",
                                   SubstituteVars(CurItem.cmd.text, pEnv), status))
    /\ pStack' = Stepped
    /\ UNCHANGED <<pBody, pKwargs, pWhich, pEnv, ppc>>
    /\ UNCHANGED restOfInterp

\* _evaluate_condition for the conditions that run nothing
EvaluatePure(cond, env) ==
    CASE cond.ctype = "var_equals" ->
           IF cond.op = "==" THEN DictGet(env, cond.var, <<>>) = cond.expected
           ELSE IF cond.op = "!=" THEN DictGet(env, cond.var, <<>>) # cond.expected
           ELSE FALSE
      [] cond.ctype = "var_exists" -> DictGet(env, cond.var, <<>>) # <<>>
      [] OTHER -> FALSE

\* the body an if item goes on with: if_body when the condition holds, else
\* else_body; an empty else_body is not executed at all
Branch(cmd, holds) ==
    IF holds THEN Stepped \o <<Frame(cmd.if_body, CurPath \o <<1>>)>>
    ELSE IF cmd.else_body # <<>>
         THEN Stepped \o <<Frame(cmd.else_body, CurPath \o <<2>>)>>
         ELSE Stepped

\* an if item inside a Tree, its condition var_equals or var_exists
PfIfPure ==
    /\ AtItem /\ CurItem.form = "tree" /\ CurItem.cmd.type = "if"
    /\ CurItem.cmd.cond.ctype # "command_succeeds"
    /\ pStack' = Branch(CurItem.cmd, EvaluatePure(CurItem.cmd.cond, pEnv))
    /\ UNCHANGED <<pBody, pKwargs, pWhich, pEnv, pLog, ppc>>
    /\ UNCHANGED restOfInterp

\* an if item inside a Tree, its condition a command: the command is run
PfIfCommand ==
    /\ AtItem /\ CurItem.form = "tree" /\ CurItem.cmd.type = "if"
    /\ CurItem.cmd.cond.ctype = "command_succeeds"
    /\ \E status \in ExitCodes :
          /\ pLog' = Append(pLog, Ran(CurPath, "condition",
                                      SubstituteVars(CurItem.cmd.cond.text, pEnv),
                                      status))
          /\ pStack' = Branch(CurItem.cmd, status = 0)
    /\ UNCHANGED <<pBody, pKwargs, pWhich, pEnv, ppc>>
    /\ UNCHANGED restOfInterp

\* bool(v) of an option's value; None is false
Truthy(v) ==
    CASE v.kind = "none" -> FALSE
      [] v.kind = "flag" -> TRUE
      [] OTHER -> v.val # <<>>

\* str.isdigit()
IsDigit(v) ==
    /\ v # <<>>
    /\ \A i \in 1..Len(v) : v[i] \in {"0", "1", "2", "3", "4", "5", "6", "7", "8", "9"}

\* str(int(v)) of a string of digits: leading zeros go
RECURSIVE IntText(_)
IntText(v) == IF Len(v) > 1 /\ Head(v) = "0" THEN IntText(Tail(v)) ELSE v

\* the characters shlex.quote leaves alone
SafeChars == WordChars \cup {"@", "%", "+", "=", ":", ",", ".", "/", "-", "_"}

\* shlex.quote(v)
ShlexQuote(v) ==
    IF v = <<>> THEN <<"'", "'">>
    ELSE IF \A i \in 1..Len(v) : v[i] \in SafeChars THEN v
    ELSE <<"'">> \o StrReplace(v, <<"'">>, <<"'", "\"", "'", "\"", "'">>, 1) \o <<"'">>

\* " ".join(cmd)
RECURSIVE JoinSpace(_)
JoinSpace(cmd) ==
    IF cmd = <<>> THEN <<>>
    ELSE IF Len(cmd) = 1 THEN Head(cmd)
    ELSE Head(cmd) \o <<" ">> \o JoinSpace(Tail(cmd))

\* [sub(x) for x in excludes]
RECURSIVE SubAll(_, _)
SubAll(l, env) ==
    IF l = <<>> THEN <<>>
    ELSE <<SubstituteVars(Head(l), env)>> \o SubAll(Tail(l), env)

\* for pat in excludes: cmd.extend(["--exclude", pat])
RECURSIVE ExcludeArgs(_)
ExcludeArgs(l) ==
    IF l = <<>> THEN <<>>
    ELSE << <<"-", "-", "e", "x", "c", "l", "u", "d", "e">>, Head(l) >> \o ExcludeArgs(Tail(l))

\* what _execute_sync does: it returns early, raises, or hands printable to
\* os.system; src, dest and exclude_file are strings when given, excludes a
\* list
SyncOutcome(ran, raised, printable) ==
    [ran |-> ran, raised |-> raised, printable |-> printable]

ExecuteSync(opts, env, which) ==
    IF ~which THEN SyncOutcome(FALSE, FALSE, <<>>)
    ELSE IF ~Truthy(opts.src) \/ ~Truthy(opts.dest) THEN SyncOutcome(FALSE, TRUE, <<>>)
    ELSE LET src == SubstituteVars(opts.src.val, env)
             dest_path == SubstituteVars(opts.dest.val, env)
             isint == opts.port.kind = "str" /\ IsDigit(opts.port.val)
             \* `if port:` on the int, or on the string left as it was
             port == IF isint THEN IntText(opts.port.val) # <<"0">>
                     ELSE Truthy(opts.port)
             excludes == IF Truthy(opts.excludes)
                         THEN SubAll(opts.excludes.val, env) ELSE <<>>
             exclude_file == IF opts.exclude_file.kind = "str"
                             THEN SubstituteVars(opts.exclude_file.val, env)
                             ELSE <<>>
             delete == Truthy(opts.delete)
             dry == Truthy(opts.dry)
             verbose == opts.verbose.kind = "none" \/ Truthy(opts.verbose)
             ssh_cmd == IF port THEN <<"s", "s", "h", " ", "-", "p", " ">> \o IntText(opts.port.val) ELSE <<"s", "s", "h">>
             prefix == IF Truthy(opts.user)
                       THEN opts.user.val \o <<"@">> \o opts.host.val
                       ELSE opts.host.val
             dest_spec == IF Truthy(opts.host)
                          THEN prefix \o <<":">> \o dest_path
                          ELSE dest_path
             cmd == << <<"r", "s", "y", "n", "c">>, <<"-", "a">> >>
                    \o (IF verbose THEN << <<"-", "v">> >> ELSE <<>>)
                    \o (IF dry THEN << <<"-", "n">> >> ELSE <<>>)
                    \o (IF delete THEN << <<"-", "-", "d", "e", "l", "e", "t", "e">> >> ELSE <<>>)
                    \o ExcludeArgs(excludes)
                    \o (IF exclude_file # <<>>
                        THEN << <<"-", "-", "e", "x", "c", "l", "u", "d", "e", "-", "f", "r", "o", "m">>, exclude_file >> ELSE <<>>)
                    \o (IF Truthy(opts.host) THEN << <<"-", "e">>, ssh_cmd >> ELSE <<>>)
                    \o << ShlexQuote(src), ShlexQuote(dest_spec) >>
         IN \* int(port) of a string that is no number raises
            IF Truthy(opts.host) /\ port /\ ~isint
            THEN SyncOutcome(FALSE, TRUE, <<>>)
            ELSE SyncOutcome(TRUE, FALSE, JoinSpace(cmd))

\* a sync item, in either form: _execute_sync runs rsync, or returns without
\* running it, or raises, which is printed; the loop goes on in every case
PfSync ==
    /\ AtItem /\ CurItem.cmd.type = "sync"
    /\ LET out == ExecuteSync(CurItem.cmd.opts, pEnv, pWhich) IN
       IF out.ran
       THEN \E status \in ExitCodes :
               pLog' = Append(pLog, Ran(CurPath, "sync", out.printable, status))
       ELSE UNCHANGED pLog
    /\ pStack' = Stepped
    /\ UNCHANGED <<pBody, pKwargs, pWhich, pEnv, ppc>>
    /\ UNCHANGED restOfInterp

\* an item no branch of _execute_body handles: a for item in either form,
\* an if item that is a bare tuple
PfUnhandled ==
    /\ AtItem
    /\ \/ CurItem.cmd.type = "for"
       \/ CurItem.form = "tuple" /\ CurItem.cmd.type = "if"
    /\ pStack' = Stepped
    /\ UNCHANGED <<pBody, pKwargs, pWhich, pEnv, pLog, ppc>>
    /\ UNCHANGED restOfInterp

\* the loop of the innermost _execute_body call is over: it returns
PfReturn ==
    /\ ppc = "running" /\ pStack # <<>> /\ Top.idx > Len(Top.body)
    /\ pStack' = SubSeq(pStack, 1, Len(pStack) - 1)
    /\ ppc' = IF Len(pStack) = 1 THEN "done" ELSE "running"
    /\ UNCHANGED <<pBody, pKwargs, pWhich, pEnv, pLog>>
    /\ UNCHANGED restOfInterp

InterpInit ==
    /\ pBody \in Bodies
    /\ pKwargs \in Kwargs
    /\ pEnv = <<>>
    /\ pStack = <<>>
    /\ pLog = <<>>
    /\ pWhich \in BOOLEAN
    /\ ppc = "defined"
    /\ ScopeIdle
    /\ DispIdle
    /\ OthersIdle

InterpNext ==
    \/ PfExecuteTask
    \/ PfDescribe
    \/ PfShell
    \/ PfIfPure
    \/ PfIfCommand
    \/ PfSync
    \/ PfUnhandled
    \/ PfReturn

SpecInterp == InterpInit /\ [][InterpNext]_vars

----------------------------------------------------------------------------
(* Claims about the interpreter, checked under SpecInterp.                 *)

\* the os.system calls made for the item at this path
RunsAt(path) == SelectSeq(pLog, LAMBDA e : e.path = path)

\* the command of a body item of a for statement: a shell item's command,
\* or the command of an if item's condition
BodyCommand(item) ==
    IF item.cmd.type = "shell" THEN item.cmd.text ELSE item.cmd.cond.text

\* C10: when the task has run, the body of a top-level for statement over N
\* elements has been executed N times, in element order, with the loop
\* variable bound to the element: its command (a shell command or the
\* command of a CommandSucceeds condition) ran once per element.
C10_ForRunsBodyPerElement ==
    ppc = "done" =>
        \A i \in 1..Len(pBody) :
            pBody[i].cmd.type = "for" =>
                LET f == pBody[i].cmd
                    runs == RunsAt(<<i, 1>>)
                IN /\ Len(runs) = Len(f.iterable)
                   /\ \A k \in 1..Len(runs) :
                         runs[k].cmd =
                             SubstituteVars(BodyCommand(f.body[1]),
                                            DictSet(pEnv, f.var, f.iterable[k]))

\* whether the condition of the if item at this path held: the status of the
\* command it ran, or the lookup a var_equals / var_exists condition makes
CondHeld(cmd, path) ==
    IF cmd.cond.ctype = "command_succeeds"
    THEN RunsAt(path) # <<>> /\ RunsAt(path)[1].status = 0
    ELSE EvaluatePure(cmd.cond, pEnv)

\* how often each shell item of a body that sits at this path was run
BodyRuns(body, path, times) ==
    \A j \in 1..Len(body) :
        body[j].cmd.type = "shell" => Len(RunsAt(path \o <<j>>)) = times

\* the if item at this path did what an If statement does when it is
\* reached, and nothing when it is not
IfAsClaimed(cmd, path, reached) ==
    LET holds == CondHeld(cmd, path) IN
    /\ Len(RunsAt(path)) =
           IF reached /\ cmd.cond.ctype = "command_succeeds" THEN 1 ELSE 0
    /\ BodyRuns(cmd.if_body, path \o <<1>>, IF reached /\ holds THEN 1 ELSE 0)
    /\ BodyRuns(cmd.else_body, path \o <<2>>, IF reached /\ ~holds THEN 1 ELSE 0)

\* C11: when the task has run, every if statement of the body, at top level
\* or nested in the then-body of another, has evaluated its condition once
\* (a CommandSucceeds condition ran its command once) and has run the
\* then-body iff the condition held, the else-body otherwise; an if statement
\* in a branch that was not taken has run nothing.
C11_IfRunsOneBranch ==
    ppc = "done" =>
        \A i \in 1..Len(pBody) :
            pBody[i].cmd.type = "if" =>
                LET outer == pBody[i].cmd IN
                /\ IfAsClaimed(outer, <<i>>, TRUE)
                /\ \A j \in 1..Len(outer.if_body) :
                      outer.if_body[j].cmd.type = "if" =>
                          IfAsClaimed(outer.if_body[j].cmd, <<i, 1, j>>,
                                      CondHeld(outer, <<i>>))

----------------------------------------------------------------------------
(* Lines of text and paths, as pf.py handles them.                         *)

\* the whitespace str.strip() and str.split() act on
Whitespace == {" ", "\t"}

RECURSIVE LStrip(_)
LStrip(s) == IF s # <<>> /\ Head(s) \in Whitespace THEN LStrip(Tail(s)) ELSE s

RECURSIVE RStrip(_)
RStrip(s) ==
    IF s # <<>> /\ s[Len(s)] \in Whitespace
    THEN RStrip(SubSeq(s, 1, Len(s) - 1))
    ELSE s

\* s.strip()
StrStrip(s) == RStrip(LStrip(s))

\* s.startswith(prefix)
StartsWith(s, prefix) == OccursAt(s, prefix, 1)

\* s.split(): the words between runs of whitespace; shlex.split(s) is the
\* same for a line that holds no quote and no backslash
RECURSIVE SplitWords(_, _)
SplitWords(s, w) ==
    IF s = <<>> THEN (IF w = <<>> THEN <<>> ELSE <<w>>)
    ELSE IF Head(s) \in Whitespace
         THEN (IF w = <<>> THEN <<>> ELSE <<w>>) \o SplitWords(Tail(s), <<>>)
         ELSE SplitWords(Tail(s), Append(w, Head(s)))

RECURSIVE NonSpaceRun(_, _)
NonSpaceRun(s, i) ==
    IF i <= Len(s) /\ s[i] \notin Whitespace THEN 1 + NonSpaceRun(s, i + 1) ELSE 0

\* s.split(None, 1): the first word, and what follows the whitespace after
\* it when anything does
SplitOnce(s) ==
    LET t == LStrip(s)
        n == NonSpaceRun(t, 1)
        rest == LStrip(SubSeq(t, n + 1, Len(t)))
    IN IF t = <<>> THEN <<>>
       ELSE IF rest = <<>> THEN <<SubSeq(t, 1, n)>>
       ELSE <<SubSeq(t, 1, n), rest>>

\* os.path.isabs(p)
IsAbs(p) == StartsWith(p, <<"/">>)

\* os.path.join(a, b)
PathJoin(a, b) ==
    IF IsAbs(b) THEN b
    ELSE IF a = <<>> \/ a[Len(a)] = "/" THEN a \o b
    ELSE a \o <<"/">> \o b

\* p.split("/")
RECURSIVE SplitSlash(_, _)
SplitSlash(s, w) ==
    IF s = <<>> THEN <<w>>
    ELSE IF Head(s) = "/" THEN <<w>> \o SplitSlash(Tail(s), <<>>)
    ELSE SplitSlash(Tail(s), Append(w, Head(s)))

\* "/".join(comps)
RECURSIVE JoinSlash(_)
JoinSlash(comps) ==
    IF comps = <<>> THEN <<>>
    ELSE IF Len(comps) = 1 THEN Head(comps)
    ELSE Head(comps) \o <<"/">> \o JoinSlash(Tail(comps))

\* the loop of os.path.normpath over the components
RECURSIVE NormComps(_, _, _)
NormComps(comps, new_comps, initial_slashes) ==
    IF comps = <<>> THEN new_comps
    ELSE LET comp == Head(comps) IN
         IF comp = <<>> \/ comp = <<".">>
         THEN NormComps(Tail(comps), new_comps, initial_slashes)
         ELSE IF \/ comp # <<".", ".">>
                 \/ (initial_slashes = 0 /\ new_comps = <<>>)
                 \/ (new_comps # <<>> /\ new_comps[Len(new_comps)] = <<".", ".">>)
              THEN NormComps(Tail(comps), Append(new_comps, comp), initial_slashes)
              ELSE IF new_comps # <<>>
                   THEN NormComps(Tail(comps),
                                  SubSeq(new_comps, 1, Len(new_comps) - 1),
                                  initial_slashes)
                   ELSE NormComps(Tail(comps), new_comps, initial_slashes)

\* os.path.normpath(p)
NormPath(p) ==
    IF p = <<>> THEN <<".">>
    ELSE LET initial_slashes ==
                 IF StartsWith(p, <<"/", "/">>) /\ ~StartsWith(p, <<"/", "/", "/">>)
                 THEN 2
                 ELSE IF IsAbs(p) THEN 1 ELSE 0
             joined ==
                 CHOOSE j \in
                     { [i \in 1..initial_slashes |-> "/"] \o JoinSlash(new_comps) :
                         new_comps \in { NormComps(comps, <<>>, initial_slashes) :
                                           comps \in {SplitSlash(p, <<>>)} } } : TRUE
         IN IF joined = <<>> THEN <<".">> ELSE joined

RECURSIVE LastSlash(_, _)
LastSlash(p, i) == IF i = 0 \/ p[i] = "/" THEN i ELSE LastSlash(p, i - 1)

RECURSIVE RStripSlash(_)
RStripSlash(s) ==
    IF s # <<>> /\ s[Len(s)] = "/" THEN RStripSlash(SubSeq(s, 1, Len(s) - 1)) ELSE s

\* os.path.dirname(p)
Dirname(p) ==
    CHOOSE d \in
        { (IF head # <<>> /\ RStripSlash(head) # <<>> THEN RStripSlash(head) ELSE head) :
            head \in { SubSeq(q, 1, LastSlash(q, Len(q))) : q \in {p} } } : TRUE

----------------------------------------------------------------------------
(* pf.py: _load_pfy_source_with_includes and _expand_includes_from_text.   *)

\* the most lines the root file has
MaxFileLines == 3

\* os.path.abspath(_find_pfyfile())
RootPath == <<"/", "d", "/", "r">>

\* the lines the root file is made of: x and s/y exist, m does not
LoadLines ==
    { <<"t", "a", "s", "k", " ", "a">>, <<"e", "n", "d">>, <<"s", "h", "e", "l", "l", " ", "x">>, <<"i", "n", "c", "l", "u", "d", "e", " ", "x">>, <<" ", " ", "i", "n", "c", "l", "u", "d", "e", " ", "s", "/", "y">>,
      <<"i", "n", "c", "l", "u", "d", "e", " ", "m">>, <<"i", "n", "c", "l", "u", "d", "e", " ", "r">> }

\* what /d/x holds
XTexts ==
    { << <<"s", "h", "e", "l", "l", " ", "x">> >>,
      << <<"i", "n", "c", "l", "u", "d", "e", " ", ".", "/", "s", "/", "y">>, <<"s", "h", "e", "l", "l", " ", "x">> >>,
      << <<"i", "n", "c", "l", "u", "d", "e", " ", "r">>, <<"i", "n", "c", "l", "u", "d", "e", " ", "x">> >>,
      << <<"t", "a", "s", "k", " ", "b">>, <<"i", "n", "c", "l", "u", "d", "e", " ", "s", "/", "y">> >> }

\* what /d/s/y holds
YTexts ==
    { << <<"s", "h", "e", "l", "l", " ", "y">> >>,
      << <<"i", "n", "c", "l", "u", "d", "e", " ", ".", ".", "/", "x">>, <<"s", "h", "e", "l", "l", " ", "y">> >>,
      << <<"i", "n", "c", "l", "u", "d", "e", " ", "y">>, <<"i", "n", "c", "l", "u", "d", "e", " ", ".", ".", "/", "m">> >> }

\* the file trees: the root file with /d/x and /d/s/y, or no root file
FileTrees ==
    { (RootPath :> root) @@ (<<"/", "d", "/", "x">> :> x) @@ (<<"/", "d", "/", "s", "/", "y">> :> y) :
        root \in SeqsUpTo(LoadLines, MaxFileLines), x \in XTexts, y \in YTexts }
    \cup { (<<"/", "d", "/", "x">> :> << <<"s", "h", "e", "l", "l", " ", "x">> >>) }

\* os.path.exists(p)
Exists(p) == p \in DOMAIN files

\* PFY_EMBED.splitlines()
PfyEmbed ==
    << <<>>, <<"t", "a", "s", "k", " ", "i", "n", "c", "l", "u", "d", "e", "_", "d", "e", "m", "o">>, <<" ", " ", "d", "e", "s", "c", "r", "i", "b", "e", " ", "S", "h", "o", "w", "s", " ", "t", "h", "a", "t", " ", "t", "h", "i", "s", " ", "f", "i", "l", "e", " ", "i", "s", " ", "a", "c", "t", "i", "v", "e", " ", "e", "v", "e", "n", " ", "w", "i", "t", "h", "o", "u", "t", " ", "P", "f", "y", "f", "i", "l", "e", ".", "p", "f">>,
       <<" ", " ", "s", "h", "e", "l", "l", " ", "e", "c", "h", "o", " ", "\"", "I", "n", "c", "l", "u", "d", "e", " ", "d", "e", "m", "o", " ", "t", "a", "s", "k", " ", "r", "a", "n", ".", "\"">>, <<"e", "n", "d">> >>

\* one call of _expand_includes_from_text: text.splitlines(), the loop
\* index, base_dir, inside_task, out_lines, and the file the text came from
Expansion(lines, base_dir, path) ==
    [lines |-> lines, idx |-> 1, base_dir |-> base_dir, inside_task |-> FALSE,
     out_lines |-> <<>>, path |-> path]

LTop == lstack[Len(lstack)]
AtLine == lpc = "expanding" /\ lstack # <<>> /\ LTop.idx <= Len(LTop.lines)
RawLine == LTop.lines[LTop.idx]
Stripped == StrStrip(RawLine)

IsTaskLine == StartsWith(Stripped, <<"t", "a", "s", "k", " ">>)
IsEndLine == Stripped = <<"e", "n", "d">>

\* an include line that counts inside a task as well
IsDirectiveAnywhere ==
    /\ ~IsTaskLine /\ ~IsEndLine
    /\ StartsWith(Stripped, <<"i", "n", "c", "l", "u", "d", "e", " ">>)
    /\ Len(SplitWords(Stripped, <<>>)) >= 2

\* lines 89-94: an include directive outside a task, with a path
IsDirective ==
    /\ ~IsTaskLine /\ ~IsEndLine
    /\ ~LTop.inside_task
    /\ StartsWith(Stripped, <<"i", "n", "c", "l", "u", "d", "e", " ">>)
    /\ Len(SplitWords(Stripped, <<>>)) >= 2

\* lines 95-97
IncFull ==
    CHOOSE inc_full \in
        { NormPath(p) :
            p \in { (IF IsAbs(inc_path) THEN inc_path ELSE PathJoin(base, inc_path)) :
                      inc_path \in { toks[2] : toks \in { SplitWords(st, <<>>) : st \in {Stripped} } },
                      base \in {LTop.base_dir} } } : TRUE

BeginMark(p) == <<"#", " ", "-", "-", "-", " ", "b", "e", "g", "i", "n", " ", "i", "n", "c", "l", "u", "d", "e", ":", " ">> \o p \o <<" ", "-", "-", "-">>
EndMark(p) == <<"#", " ", "-", "-", "-", " ", "e", "n", "d", " ", "i", "n", "c", "l", "u", "d", "e", ":", " ">> \o p \o <<" ", "-", "-", "-">>

\* the innermost call after this line: out_lines grown, inside_task set
LineDone(out, inside) ==
    [lstack EXCEPT ![Len(lstack)] =
        [@ EXCEPT !.idx = @ + 1, !.out_lines = @ \o out, !.inside_task = inside]]

\* visited.add(inc_full), were it left out
MarkVisitedNot(seen, p) == seen

\* line 103: visited.add(inc_full)
MarkVisited(seen, p) == seen \cup {p}

\* lines 114-119: the root file exists and is read
LoadSource ==
    /\ lpc = "start" /\ Exists(RootPath)
    /\ visited' = {RootPath}
    /\ reads' = <<RootPath>>
    /\ lstack' = <<Expansion(files[RootPath], Dirname(RootPath), RootPath)>>
    /\ lpc' = "expanding"
    /\ UNCHANGED <<files, warned, dsl_src>>
    /\ UNCHANGED restOfLoad

\* line 120: no root file, the embedded sample is the source
LoadEmbedded ==
    /\ lpc = "start" /\ ~Exists(RootPath)
    /\ dsl_src' = PfyEmbed
    /\ lpc' = "loaded"
    /\ UNCHANGED <<files, visited, reads, warned, lstack>>
    /\ UNCHANGED restOfLoad

\* lines 83-85: a task line
ExpandTask ==
    /\ AtLine /\ IsTaskLine
    /\ lstack' = LineDone(<<RawLine>>, TRUE)
    /\ UNCHANGED <<files, visited, reads, warned, dsl_src, lpc>>
    /\ UNCHANGED restOfLoad

\* lines 86-88: an end line
ExpandEnd ==
    /\ AtLine /\ IsEndLine
    /\ lstack' = LineDone(<<RawLine>>, FALSE)
    /\ UNCHANGED <<files, visited, reads, warned, dsl_src, lpc>>
    /\ UNCHANGED restOfLoad

\* a visited path, were the loop to stay at the directive
ExpandVisitedStays ==
    /\ AtLine /\ IsDirective /\ IncFull \in visited
    /\ UNCHANGED <<files, visited, reads, warned, lstack, dsl_src, lpc>>
    /\ UNCHANGED restOfLoad

\* lines 98-99: the path was visited, the directive is dropped
ExpandVisited ==
    /\ AtLine /\ IsDirective /\ IncFull \in visited
    /\ lstack' = LineDone(<<>>, LTop.inside_task)
    /\ UNCHANGED <<files, visited, reads, warned, dsl_src, lpc>>
    /\ UNCHANGED restOfLoad

\* no such file, were the loop to stop there (break for continue)
ExpandMissingBreaks ==
    /\ AtLine /\ IsDirective /\ IncFull \notin visited /\ ~Exists(IncFull)
    /\ warned' = Append(warned, IncFull)
    /\ lstack' = [lstack EXCEPT ![Len(lstack)].idx = Len(LTop.lines) + 1]
    /\ UNCHANGED <<files, visited, reads, dsl_src, lpc>>
    /\ UNCHANGED restOfLoad

\* lines 100-102: no such file, a warning and the directive is dropped
ExpandMissing ==
    /\ AtLine /\ IsDirective /\ IncFull \notin visited /\ ~Exists(IncFull)
    /\ warned' = Append(warned, IncFull)
    /\ lstack' = LineDone(<<>>, LTop.inside_task)
    /\ UNCHANGED <<files, visited, reads, dsl_src, lpc>>
    /\ UNCHANGED restOfLoad

\* lines 103-105: the file is marked, read, and expanded by a nested call
ExpandInclude ==
    /\ AtLine /\ IsDirective /\ IncFull \notin visited /\ Exists(IncFull)
    /\ visited' = MarkVisited(visited, IncFull)
    /\ reads' = Append(reads, IncFull)
    /\ lstack' = Append(lstack, Expansion(files[IncFull], Dirname(IncFull), IncFull))
    /\ UNCHANGED <<files, warned, dsl_src, lpc>>
    /\ UNCHANGED restOfLoad

\* line 110: any other line is kept
ExpandLine ==
    /\ AtLine /\ ~IsTaskLine /\ ~IsEndLine /\ ~IsDirective
    /\ lstack' = LineDone(<<RawLine>>, LTop.inside_task)
    /\ UNCHANGED <<files, visited, reads, warned, dsl_src, lpc>>
    /\ UNCHANGED restOfLoad

\* lines 106-109 and 111: the call returns its text; the including call puts
\* it between two marker lines (the text ends with a newline and is joined
\* with one more, which leaves an empty line before the end marker)
ExpandReturn ==
    /\ lpc = "expanding" /\ lstack # <<>> /\ LTop.idx > Len(LTop.lines)
    /\ IF Len(lstack) = 1
       THEN /\ dsl_src' = LTop.out_lines
            /\ lstack' = <<>>
            /\ lpc' = "loaded"
       ELSE /\ lstack' =
                 [SubSeq(lstack, 1, Len(lstack) - 1) EXCEPT ![Len(lstack) - 1] =
                     [@ EXCEPT !.idx = @ + 1,
                               !.out_lines = @ \o <<BeginMark(LTop.path)>>
                                               \o LTop.out_lines \o << <<>> >>
                                               \o <<EndMark(LTop.path)>>]]
            /\ UNCHANGED <<dsl_src, lpc>>
    /\ UNCHANGED <<files, visited, reads, warned>>
    /\ UNCHANGED restOfLoad

LoadInit ==
    /\ files \in FileTrees
    /\ visited = {}
    /\ reads = <<>>
    /\ warned = <<>>
    /\ lstack = <<>>
    /\ dsl_src = <<>>
    /\ lpc = "start"
    /\ ScopeIdle /\ DispIdle /\ InterpIdle /\ ParseIdle /\ HostsIdle /\ SelectIdle

LoadNext ==
    \/ LoadSource
    \/ LoadEmbedded
    \/ ExpandTask
    \/ ExpandEnd
    \/ ExpandVisited
    \/ ExpandMissing
    \/ ExpandInclude
    \/ ExpandLine
    \/ ExpandReturn

SpecLoad == LoadInit /\ [][LoadNext]_vars

\* the load is one sequential computation: it takes its next step as long
\* as it has one
SpecLoadFair == SpecLoad /\ WF_vars(LoadNext)

----------------------------------------------------------------------------
(* Claims about include expansion, checked under SpecLoad.                 *)

\* how often this line occurs in the expanded source
Occurrences(line) == Cardinality({i \in 1..Len(dsl_src) : dsl_src[i] = line})

\* the include directives of a text: the lines outside any task that name a
\* path to include
RECURSIVE DirectivesOf(_, _)
DirectivesOf(lines, inside) ==
    IF lines = <<>> THEN <<>>
    ELSE LET st == StrStrip(Head(lines)) IN
         IF StartsWith(st, <<"t", "a", "s", "k", " ">>) THEN DirectivesOf(Tail(lines), TRUE)
         ELSE IF st = <<"e", "n", "d">> THEN DirectivesOf(Tail(lines), FALSE)
         ELSE IF ~inside /\ StartsWith(st, <<"i", "n", "c", "l", "u", "d", "e", " ">>)
                 /\ Len(SplitWords(st, <<>>)) >= 2
              THEN <<Head(lines)>> \o DirectivesOf(Tail(lines), inside)
              ELSE DirectivesOf(Tail(lines), inside)

\* the lines the files read so far hold, their include directives left out
RECURSIVE OwnLines(_)
OwnLines(paths) ==
    IF paths = <<>> THEN 0
    ELSE Len(files[Head(paths)]) - Len(DirectivesOf(files[Head(paths)], FALSE))
         + OwnLines(Tail(paths))

\* C12: no path is read twice in one load, and the paths read are the
\* visited ones; when the load is over the root file was read first and never
\* included, every other file read is expanded in exactly one place (one
\* begin and one end marker), no warning names a visited path, and the
\* expanded source holds nothing but the lines of the files read and the
\* three lines that frame each expansion: a directive that names a visited
\* path left no line.
C12_IncludeAtMostOnce ==
    /\ \A i, j \in 1..Len(reads) : reads[i] = reads[j] => i = j
    /\ visited = {reads[i] : i \in 1..Len(reads)}
    /\ (lpc = "loaded" /\ reads # <<>>) =>
          /\ reads[1] = RootPath
          /\ \A p \in DOMAIN files :
                LET n == IF p \in visited /\ p # RootPath THEN 1 ELSE 0 IN
                Occurrences(BeginMark(p)) = n /\ Occurrences(EndMark(p)) = n
          /\ \A i \in 1..Len(warned) : warned[i] \notin visited
          /\ Len(dsl_src) = OwnLines(reads) + 3 * (Len(reads) - 1)

\* C12 witness: the root includes itself, x and s/y; x and s/y include each
\* other, so s/y is named by the root and by x; each was read once
C12_Witness ==
    /\ lpc = "loaded" /\ Exists(RootPath)
    /\ files[RootPath] = << <<"i", "n", "c", "l", "u", "d", "e", " ", "r">>, <<"i", "n", "c", "l", "u", "d", "e", " ", "x">>, <<" ", " ", "i", "n", "c", "l", "u", "d", "e", " ", "s", "/", "y">> >>
    /\ files[<<"/", "d", "/", "x">>] = << <<"i", "n", "c", "l", "u", "d", "e", " ", ".", "/", "s", "/", "y">>, <<"s", "h", "e", "l", "l", " ", "x">> >>
    /\ files[<<"/", "d", "/", "s", "/", "y">>] = << <<"i", "n", "c", "l", "u", "d", "e", " ", ".", ".", "/", "x">>, <<"s", "h", "e", "l", "l", " ", "y">> >>
    /\ reads = << RootPath, <<"/", "d", "/", "x">>, <<"/", "d", "/", "s", "/", "y">> >>

\* the lines of a text that are not include directives
RECURSIVE OtherLines(_, _)
OtherLines(lines, inside) ==
    IF lines = <<>> THEN <<>>
    ELSE LET st == StrStrip(Head(lines)) IN
         IF StartsWith(st, <<"t", "a", "s", "k", " ">>) THEN <<Head(lines)>> \o OtherLines(Tail(lines), TRUE)
         ELSE IF st = <<"e", "n", "d">> THEN <<Head(lines)>> \o OtherLines(Tail(lines), FALSE)
         ELSE IF ~inside /\ StartsWith(st, <<"i", "n", "c", "l", "u", "d", "e", " ">>)
                 /\ Len(SplitWords(st, <<>>)) >= 2
              THEN OtherLines(Tail(lines), inside)
              ELSE <<Head(lines)>> \o OtherLines(Tail(lines), inside)

\* a is what is left of b when some of b's elements are taken out
RECURSIVE IsSubseq(_, _)
IsSubseq(a, b) ==
    IF a = <<>> THEN TRUE
    ELSE IF b = <<>> THEN FALSE
    ELSE IF Head(a) = Head(b) THEN IsSubseq(Tail(a), Tail(b))
    ELSE IsSubseq(a, Tail(b))

\* C20: a path reported as not found does not exist and is not marked
\* visited; after a warning the load is still under way or over, and when it
\* is over the lines of every file read, the include directives apart, are
\* in the expanded source in their order, to the last line of each file, and
\* they are all of it when the root was the only file read.
C20_MissingIncludeNonFatal ==
    /\ \A i \in 1..Len(warned) : warned[i] \notin visited /\ ~Exists(warned[i])
    /\ warned # <<>> => (lpc = "loaded" \/ (lpc = "expanding" /\ lstack # <<>>))
    /\ (lpc = "loaded" /\ warned # <<>>) =>
          /\ \A i \in 1..Len(reads) :
                IsSubseq(OtherLines(files[reads[i]], FALSE), dsl_src)
          /\ Len(reads) = 1 => dsl_src = OtherLines(files[RootPath], FALSE)

\* C20 witness: the root is `shell x`, `include m`, `task a`; m is missing
C20_Witness ==
    /\ lpc = "loaded" /\ Exists(RootPath)
    /\ files[RootPath] = << <<"s", "h", "e", "l", "l", " ", "x">>, <<"i", "n", "c", "l", "u", "d", "e", " ", "m">>, <<"t", "a", "s", "k", " ", "a">> >>
    /\ warned = << <<"/", "d", "/", "m">> >>
    /\ dsl_src = << <<"s", "h", "e", "l", "l", " ", "x">>, <<"t", "a", "s", "k", " ", "a">> >>

\* the line names a file to include
IsIncludeLine(line) == StartsWith(StrStrip(line), <<"i", "n", "c", "l", "u", "d", "e", " ">>)

\* line k of the text lies between a task line and its end line: the last
\* task or end line before it is a task line
RECURSIVE InsideAt(_, _)
InsideAt(lines, k) ==
    IF k <= 1 THEN FALSE
    ELSE LET st == StrStrip(lines[k - 1]) IN
         IF StartsWith(st, <<"t", "a", "s", "k", " ">>) THEN TRUE
         ELSE IF st = <<"e", "n", "d">> THEN FALSE
         ELSE InsideAt(lines, k - 1)

\* the file an include line of the file at path names
Named(path, line) ==
    LET inc_path == SplitWords(StrStrip(line), <<>>)[2] IN
    NormPath(IF IsAbs(inc_path) THEN inc_path ELSE PathJoin(Dirname(path), inc_path))

\* the include lines of a text that lie inside a task
IncludesInside(lines) ==
    LET idx == {k \in 1..Len(lines) : IsIncludeLine(lines[k]) /\ InsideAt(lines, k)}
    IN SelectSeq([k \in 1..Len(lines) |-> IF k \in idx THEN lines[k] ELSE <<>>],
                 LAMBDA l : l # <<>>)

\* every file read but the root is named by an include line outside any
\* task of a file read, relative to that file's directory; the include lines
\* inside tasks are in the expanded source as they were written
IncludedFromOutside ==
    /\ \A i \in 2..Len(reads) :
          \E j \in 1..Len(reads) : \E k \in 1..Len(files[reads[j]]) :
              /\ IsIncludeLine(files[reads[j]][k])
              /\ ~InsideAt(files[reads[j]], k)
              /\ Named(reads[j], files[reads[j]][k]) = reads[i]
    /\ lpc = "loaded" =>
          \A i \in 1..Len(reads) :
              IsSubseq(IncludesInside(files[reads[i]]), dsl_src)

\* one step at an include line: inside a task nothing is read and the line
\* is kept; outside, a file not read before is read and expanded from its
\* own directory
IncludeStep ==
    (AtLine /\ IsIncludeLine(RawLine)) =>
        IF InsideAt(LTop.lines, LTop.idx)
        THEN /\ UNCHANGED <<reads, visited, warned>>
             /\ lstack' = LineDone(<<RawLine>>, TRUE)
        ELSE LET p == Named(LTop.path, RawLine) IN
             (Exists(p) /\ p \notin visited) =>
                 /\ reads' = Append(reads, p)
                 /\ SubSeq(lstack', 1, Len(lstack)) = lstack
                 /\ Len(lstack') = Len(lstack) + 1
                 /\ lstack'[Len(lstack')].lines = files[p]
                 /\ lstack'[Len(lstack')].base_dir = Dirname(p)
                 /\ lstack'[Len(lstack')].out_lines = <<>>

\* one step at the end of an included file: what the file expanded to goes
\* where the directive was, after the lines before it, and the including
\* file carries on with the line after the directive
ReturnStep ==
    (lpc = "expanding" /\ Len(lstack) > 1 /\ LTop.idx > Len(LTop.lines)) =>
        LET up == lstack[Len(lstack) - 1] IN
        /\ Len(lstack') = Len(lstack) - 1
        /\ IsIncludeLine(up.lines[up.idx])
        /\ Named(up.path, up.lines[up.idx]) = LTop.path
        /\ lstack'[Len(lstack')].idx = up.idx + 1
        /\ lstack'[Len(lstack')].out_lines
              = up.out_lines \o <<BeginMark(LTop.path)>> \o LTop.out_lines
                  \o << <<>> >> \o <<EndMark(LTop.path)>>

\* C24: an include line between a task line and its end is kept as it is
\* and no file is read for it; an include line outside any task that names
\* a file not yet read makes that file be read and expanded, relative to the
\* including file's directory, and the expansion stands at the directive's
\* position.
C24_IncludeOnlyOutsideTasks ==
    /\ []IncludedFromOutside
    /\ [][IncludeStep /\ ReturnStep]_vars

\* C24 witness: the root is `  include s/y`, `task a`, `include x`; s/y
\* holds `shell y`
C24_Witness ==
    /\ lpc = "loaded" /\ Exists(RootPath)
    /\ files[RootPath] = << <<" ", " ", "i", "n", "c", "l", "u", "d", "e", " ", "s", "/", "y">>, <<"t", "a", "s", "k", " ", "a">>, <<"i", "n", "c", "l", "u", "d", "e", " ", "x">> >>
    /\ reads = << RootPath, <<"/", "d", "/", "s", "/", "y">> >>
    /\ dsl_src = << BeginMark(<<"/", "d", "/", "s", "/", "y">>), <<"s", "h", "e", "l", "l", " ", "y">>, <<>>, EndMark(<<"/", "d", "/", "s", "/", "y">>),
                    <<"t", "a", "s", "k", " ", "a">>, <<"i", "n", "c", "l", "u", "d", "e", " ", "x">> >>

----------------------------------------------------------------------------
(* pf.py: parse_pfyfile_text.                                              *)

\* the most lines the parsed text has
MaxTextLines == 4

\* the lines a text is made of
ParseLines ==
    { <<"t", "a", "s", "k", " ", "a">>, <<" ", " ", "t", "a", "s", "k", " ", "b">>, <<"t", "a", "s", "k">>, <<" ", " ", "t", "a", "s", "k", " ", " ">>, <<"e", "n", "d">>, <<"s", "h", "e", "l", "l", " ", "x">>,
      <<"s", "h", "e", "l", "l", " ", "y">>,
      <<"d", "e", "s", "c", "r", "i", "b", "e", " ", "d">>, <<"#", "c">>, <<>> }

\* Task(name): no lines, no description (<<>> stands for None)
NewTask == [lines |-> <<>>, description |-> <<>>]

PLine == StrStrip(src_lines[pidx])
AtText == parse_pc = "parsing" /\ pidx <= Len(src_lines)

\* line 127
IsBlankOrComment == PLine = <<>> \/ StartsWith(PLine, <<"#">>)
\* a task line that counts only when no task is open
IsTaskHeaderOutside ==
    ~IsBlankOrComment /\ StartsWith(PLine, <<"t", "a", "s", "k", " ">>) /\ cur = <<>>

\* line 128
IsTaskHeader == ~IsBlankOrComment /\ StartsWith(PLine, <<"t", "a", "s", "k", " ">>)
\* line 132
IsEnd == ~IsBlankOrComment /\ ~IsTaskHeader /\ PLine = <<"e", "n", "d">>
\* lines 134-139: a line that is none of the above
IsBodyLine == ~IsBlankOrComment /\ ~IsTaskHeader /\ ~IsEnd

\* line 127: blank lines and comments are passed over
ParseSkip ==
    /\ AtText /\ IsBlankOrComment
    /\ pidx' = pidx + 1
    /\ UNCHANGED <<src_lines, tasks, cur, parse_pc>>
    /\ UNCHANGED restOfParse

\* a task line that keeps the Task the catalog already holds under the name
ParseTaskKeeps ==
    /\ AtText /\ IsTaskHeader
    /\ LET parts == SplitOnce(PLine)
           name == IF Len(parts) >= 2 THEN StrStrip(parts[2]) ELSE <<>>
       IN IF name = <<>>
          THEN /\ parse_pc' = "error"
               /\ UNCHANGED <<pidx, tasks, cur>>
          ELSE /\ cur' = name
               /\ tasks' = IF name \in DictKeys(tasks) THEN tasks
                           ELSE DictSet(tasks, name, NewTask)
               /\ pidx' = pidx + 1
               /\ UNCHANGED parse_pc
    /\ UNCHANGED src_lines
    /\ UNCHANGED restOfParse

\* lines 128-131: a task line; the name is what follows the keyword, and a
\* missing name raises
ParseTask ==
    /\ AtText /\ IsTaskHeader
    /\ LET parts == SplitOnce(PLine)
           name == IF Len(parts) >= 2 THEN StrStrip(parts[2]) ELSE <<>>
       IN IF name = <<>>
          THEN /\ parse_pc' = "error"
               /\ UNCHANGED <<pidx, tasks, cur>>
          ELSE /\ cur' = name
               /\ tasks' = DictSet(tasks, name, NewTask)
               /\ pidx' = pidx + 1
               /\ UNCHANGED parse_pc
    /\ UNCHANGED src_lines
    /\ UNCHANGED restOfParse

\* lines 132-133: end
ParseEnd ==
    /\ AtText /\ IsEnd
    /\ cur' = <<>>
    /\ pidx' = pidx + 1
    /\ UNCHANGED <<src_lines, tasks, parse_pc>>
    /\ UNCHANGED restOfParse

\* line 134: a line outside any task is passed over
ParseOutside ==
    /\ AtText /\ IsBodyLine /\ cur = <<>>
    /\ pidx' = pidx + 1
    /\ UNCHANGED <<src_lines, tasks, cur, parse_pc>>
    /\ UNCHANGED restOfParse

\* lines 135-138: the first describe line of a task sets its description
ParseDescribe ==
    /\ AtText /\ IsBodyLine /\ cur # <<>>
    /\ StartsWith(PLine, <<"d", "e", "s", "c", "r", "i", "b", "e", " ">>)
    /\ LET t == DictGet(tasks, cur, NewTask) IN
       tasks' = IF t.description = <<>>
                THEN DictSet(tasks, cur,
                             [t EXCEPT !.description = StrStrip(SplitOnce(PLine)[2])])
                ELSE tasks
    /\ pidx' = pidx + 1
    /\ UNCHANGED <<src_lines, cur, parse_pc>>
    /\ UNCHANGED restOfParse

\* line 139: cur.add(line)
ParseAdd ==
    /\ AtText /\ IsBodyLine /\ cur # <<>>
    /\ ~StartsWith(PLine, <<"d", "e", "s", "c", "r", "i", "b", "e", " ">>)
    /\ LET t == DictGet(tasks, cur, NewTask) IN
       tasks' = DictSet(tasks, cur, [t EXCEPT !.lines = Append(@, PLine)])
    /\ pidx' = pidx + 1
    /\ UNCHANGED <<src_lines, cur, parse_pc>>
    /\ UNCHANGED restOfParse

\* line 140: return tasks
ParseReturn ==
    /\ parse_pc = "parsing" /\ pidx > Len(src_lines)
    /\ parse_pc' = "parsed"
    /\ UNCHANGED <<src_lines, pidx, tasks, cur>>
    /\ UNCHANGED restOfParse

ParseInit ==
    /\ src_lines \in SeqsUpTo(ParseLines, MaxTextLines)
    /\ pidx = 1
    /\ tasks = <<>>
    /\ cur = <<>>
    /\ parse_pc = "parsing"
    /\ ScopeIdle /\ DispIdle /\ InterpIdle /\ LoadIdle /\ HostsIdle /\ SelectIdle

ParseNext ==
    \/ ParseSkip
    \/ ParseTask
    \/ ParseEnd
    \/ ParseOutside
    \/ ParseDescribe
    \/ ParseAdd
    \/ ParseReturn

SpecParse == ParseInit /\ [][ParseNext]_vars

----------------------------------------------------------------------------
(* Claims about parse_pfyfile_text, checked under SpecParse.               *)

\* a task line with no name: the keyword alone, whitespace around it or not
Nameless(line) == StrStrip(line) = <<"t", "a", "s", "k">>

\* C13: a text that holds a task line with no name is never parsed into a
\* catalog: the parse ends in an error.
C13_NamelessTaskIsFatal ==
    (\E i \in 1..Len(src_lines) : Nameless(src_lines[i])) => parse_pc # "parsed"

\* line i of the text, stripped
TextLine(i) == StrStrip(src_lines[i])

\* line i opens a definition: a task line
OpensTask(i) == StartsWith(TextLine(i), <<"t", "a", "s", "k", " ">>)

\* the name line i defines
NameAt(i) == StrStrip(SubSeq(TextLine(i), 6, Len(TextLine(i))))

\* where the definition opened at line i stops: the next task line or end
\* line, or the end of the text
StopOf(i) ==
    LET stops == {j \in (i + 1)..Len(src_lines) :
                     OpensTask(j) \/ TextLine(j) = <<"e", "n", "d">>}
    IN IF stops = {} THEN Len(src_lines) + 1
       ELSE CHOOSE j \in stops : \A k \in stops : j <= k

\* the definition opened at line i has no end line of its own
Unterminated(i) ==
    StopOf(i) = Len(src_lines) + 1 \/ OpensTask(StopOf(i))

\* line j is a statement: not blank, not a comment, not a describe line
IsStatement(j) ==
    /\ TextLine(j) # <<>>
    /\ ~StartsWith(TextLine(j), <<"#">>)
    /\ ~StartsWith(TextLine(j), <<"d", "e", "s", "c", "r", "i", "b", "e", " ">>)

\* the statements between line i and the stop of its definition
RECURSIVE StatementsIn(_, _)
StatementsIn(a, b) ==
    IF a > b THEN <<>>
    ELSE (IF IsStatement(a) THEN <<TextLine(a)>> ELSE <<>>) \o StatementsIn(a + 1, b)

\* the text of the first describe line in lines a..b, <<>> when there is none
RECURSIVE DescriptionIn(_, _)
DescriptionIn(a, b) ==
    IF a > b THEN <<>>
    ELSE IF StartsWith(TextLine(a), <<"d", "e", "s", "c", "r", "i", "b", "e", " ">>)
         THEN StrStrip(SubSeq(TextLine(a), 10, Len(TextLine(a))))
         ELSE DescriptionIn(a + 1, b)

\* no later line defines the name of line i again
LastDefinition(i) ==
    \A j \in (i + 1)..Len(src_lines) : OpensTask(j) => NameAt(j) # NameAt(i)

\* C21: a text with a task that has no end line is parsed without error;
\* the body of such a task is the statements between its task line and the
\* next task line (or the end of the text), and no statement after that
\* task line is in it.
C21_UnterminatedAccepted ==
    /\ (\E i \in 1..Len(src_lines) : OpensTask(i) /\ Unterminated(i))
          => parse_pc # "error"
    /\ parse_pc = "parsed" =>
          \A i \in 1..Len(src_lines) :
              (OpensTask(i) /\ Unterminated(i) /\ LastDefinition(i)) =>
                  /\ NameAt(i) \in DictKeys(tasks)
                  /\ DictGet(tasks, NameAt(i), NewTask).lines
                        = StatementsIn(i + 1, StopOf(i) - 1)

\* C21 witness: `task a`, `shell x`, `task b`, `shell y`
C21_Witness ==
    /\ parse_pc = "parsed"
    /\ src_lines = << <<"t", "a", "s", "k", " ", "a">>, <<"s", "h", "e", "l", "l", " ", "x">>, <<" ", " ", "t", "a", "s", "k", " ", "b">>, <<"s", "h", "e", "l", "l", " ", "y">> >>
    /\ tasks = << <<<<"a">>, [lines |-> << <<"s", "h", "e", "l", "l", " ", "x">> >>, description |-> <<>>]>>,
                  <<<<"b">>, [lines |-> << <<"s", "h", "e", "l", "l", " ", "y">> >>, description |-> <<>>]>> >>

\* C27: the catalog holds a name once, and a name the text defines more than
\* once has the statements and the description of its last definition only.
C27_LastDefinitionWins ==
    /\ \A k, l \in 1..Len(tasks) : k # l => tasks[k][1] # tasks[l][1]
    /\ parse_pc = "parsed" =>
          \A i \in 1..Len(src_lines) :
              (/\ OpensTask(i) /\ LastDefinition(i)
               /\ \E j \in 1..(i - 1) : OpensTask(j) /\ NameAt(j) = NameAt(i)) =>
                  /\ NameAt(i) \in DictKeys(tasks)
                  /\ DictGet(tasks, NameAt(i), NewTask)
                        = [lines |-> StatementsIn(i + 1, StopOf(i) - 1),
                           description |-> DescriptionIn(i + 1, StopOf(i) - 1)]

\* C27 witness: `task a`, `describe d`, `shell x`, then `task a` again
C27_Witness ==
    /\ parse_pc = "parsed"
    /\ src_lines = << <<"t", "a", "s", "k", " ", "a">>, <<"d", "e", "s", "c", "r", "i", "b", "e", " ", "d">>, <<"s", "h", "e", "l", "l", " ", "x">>, <<"t", "a", "s", "k", " ", "a">> >>
    /\ tasks = << <<<<"a">>, NewTask>> >>

----------------------------------------------------------------------------
(* pf_parser.py: _execute_sync over the options a sync statement can       *)
(* carry, one sync statement per task.                                     *)

\* the opts dicts: src a/ or $a, dest b/ or none, host h, user u, port 22,
\* one or two exclude patterns, an exclude file, the three flags
SyncOptSets ==
    { SyncOpts(src, dest, host, user, port, excludes, exclude_file,
               delete, dry, verbose) :
        src \in {StrOpt(<<"a", "/">>), StrOpt(<<"$", "a">>)},
        dest \in {StrOpt(<<"b", "/">>), NoOpt},
        host \in {StrOpt(<<"h">>), NoOpt},
        user \in {StrOpt(<<"u">>), NoOpt},
        port \in {StrOpt(<<"2", "2">>), NoOpt},
        excludes \in {NoOpt, ListOpt(<< <<"c">> >>), ListOpt(<< <<"c">>, <<"$", "a">> >>)},
        exclude_file \in {StrOpt(<<"c">>), NoOpt},
        delete \in {FlagOpt, NoOpt},
        dry \in {FlagOpt, NoOpt},
        verbose \in {FlagOpt, NoOpt} }

SyncInit ==
    /\ pBody \in {<<Item("tree", SyncCmd(o))>> : o \in SyncOptSets}
    /\ pKwargs \in Kwargs
    /\ pEnv = <<>>
    /\ pStack = <<>>
    /\ pLog = <<>>
    /\ pWhich \in BOOLEAN
    /\ ppc = "defined"
    /\ ScopeIdle
    /\ DispIdle
    /\ OthersIdle

SyncNext ==
    \/ PfExecuteTask
    \/ PfSync
    \/ PfReturn

SpecSync == SyncInit /\ [][SyncNext]_vars

\* os.system(printable): the words the shell makes of the command line.
\* A character is quoted when an odd number of single quotes precede it;
\* blanks that are not quoted split words, and the quotes go.
QuotedAt(s, j) == Cardinality({k \in 1..(j - 1) : s[k] = "'"}) % 2 = 1

WordBreaks(s) == {j \in 1..Len(s) : s[j] \in Whitespace /\ ~QuotedAt(s, j)}

Least(S) == CHOOSE j \in S : \A k \in S : j <= k

RECURSIVE ShellWordsFrom(_, _)
ShellWordsFrom(s, i) ==
    LET starts == {j \in i..Len(s) : j \notin WordBreaks(s)} IN
    IF starts = {} THEN <<>>
    ELSE LET first == Least(starts)
             stop == Least({j \in WordBreaks(s) : j > first} \cup {Len(s) + 1})
         IN <<SelectSeq(SubSeq(s, first, stop - 1), LAMBDA ch : ch # "'")>>
            \o ShellWordsFrom(s, stop)

ShellWords(s) == ShellWordsFrom(s, 1)

----------------------------------------------------------------------------
(* Claims about sync statements.                                           *)

\* the argument vector of a sync statement
SyncVector(opts, env) ==
    LET given(v) == v.kind # "none"
        dest_path == SubstituteVars(opts.dest.val, env)
    IN << <<"r", "s", "y", "n", "c">>, <<"-", "a">> >>
       \o (IF given(opts.verbose) /\ ~Truthy(opts.verbose) THEN <<>> ELSE << <<"-", "v">> >>)
       \o (IF Truthy(opts.dry) THEN << <<"-", "n">> >> ELSE <<>>)
       \o (IF Truthy(opts.delete) THEN << <<"-", "-", "d", "e", "l", "e", "t", "e">> >> ELSE <<>>)
       \o (IF given(opts.excludes)
           THEN ExcludeArgs(SubAll(opts.excludes.val, env)) ELSE <<>>)
       \o (IF given(opts.exclude_file)
           THEN << <<"-", "-", "e", "x", "c", "l", "u", "d", "e", "-", "f", "r", "o", "m">>, SubstituteVars(opts.exclude_file.val, env) >>
           ELSE <<>>)
       \o (IF given(opts.host)
           THEN << <<"-", "e">>,
                   IF given(opts.port) THEN <<"s", "s", "h", " ", "-", "p", " ">> \o opts.port.val ELSE <<"s", "s", "h">> >>
           ELSE <<>>)
       \o << SubstituteVars(opts.src.val, env),
             IF given(opts.host)
             THEN (IF given(opts.user) THEN opts.user.val \o <<"@">> ELSE <<>>)
                  \o opts.host.val \o <<":">> \o dest_path
             ELSE dest_path >>

\* C14: the command a sync statement runs reaches rsync as the argument
\* vector of the statement: rsync -a, the flags, the excludes, -e with the
\* remote-shell command as one argument when a host is given, then source
\* and destination.
C14_SyncVector ==
    \A i \in 1..Len(pLog) :
        pLog[i].kind = "sync" =>
            ShellWords(pLog[i].cmd)
                = SyncVector(pBody[pLog[i].path[1]].cmd.opts, pEnv)

\* a sync statement of the task body with no src or no dest
MissingArgs(item) ==
    /\ item.cmd.type = "sync"
    /\ (item.cmd.opts.src.kind = "none" \/ item.cmd.opts.dest.kind = "none")

\* C15: a task whose body holds a sync statement with no src or no dest does
\* not run to a normal end: the statement is an error that fails the task,
\* rsync installed or not.
C15_SyncMissingArgsFails ==
    (\E i \in 1..Len(pBody) : MissingArgs(pBody[i])) => ppc # "done"

----------------------------------------------------------------------------
(* Ordering, completion and independence of the workers, checked under     *)
(* Spec. A statement is one step of its worker: run() waits for the        *)
(* command (p.wait(), c.run) before _exec_line_fabric returns.             *)

\* position p lies before line li of task ti
Before(p, ti, li) == p[1] < ti \/ (p[1] = ti /\ p[2] < li)

\* the positions of the statements target h has executed, in order
Issued(h) == [i \in 1..Len(trace[h]) |-> <<trace[h][i].task, trace[h][i].line>>]

\* the statements before the position run_host is at on target h
Passed(h) == SelectSeq(Flat, LAMBDA p : Before(p, wti[h], wli[h]))

\* C16: on every target the statements executed are, in order and without
\* gap or repetition, the statements of the selected tasks before the
\* position of its worker (tasks in selection order, lines in declaration
\* order); only the last one can have failed, and it is then the statement
\* the worker stopped at.
C16_PerTargetOrder ==
    \A h \in Targets :
        LET n == Len(trace[h])
        IN /\ wti[h] \in 1..(Len(selected) + 1)
           /\ wti[h] <= Len(selected) => wli[h] \in 1..Len(selected[wti[h]].lines)
           /\ \A i \in 1..(n - 1) : ~Failed(trace[h][i])
           /\ IF n > 0 /\ Failed(trace[h][n])
              THEN /\ Issued(h) = Append(Passed(h), <<wti[h], wli[h]>>)
                   /\ Finished(h)
              ELSE Issued(h) = Passed(h)

\* C16 witness: two tasks, of two statements and of one, ran to the end on
\* a target, first task first
C16_Witness ==
    \E h \in Targets :
        /\ Len(selected) = 2
        /\ Len(selected[1].lines) = 2
        /\ wpc[h] = "returned" /\ result[h] = 0
        /\ Issued(h) = << <<1, 1>>, <<1, 2>>, <<2, 1>> >>

\* C17: a future is consumed only when its worker has finished, and when
\* main has returned every worker has finished (none is at a statement),
\* every future was consumed and a failed target made the result non-zero.
C17_CompletionAwaited ==
    /\ \A h \in collected : Finished(h)
    /\ mpc = "returned" =>
          \A h \in Targets :
              /\ Finished(h)
              /\ ~Running(h)
              /\ h \in collected
              /\ TargetFailed(h) => rc_total # 0

\* C17 witness: main returned after a target that ran three statements and
\* one whose first statement failed
C17_Witness ==
    /\ mpc = "returned"
    /\ Len(trace[1]) = 3 /\ result[1] = 0
    /\ Len(trace[2]) = 1 /\ result[2] = 2
    /\ rc_total = 2

\* task_env after the lines before line li of task ti, from the task alone
RECURSIVE EnvUpTo(_, _)
EnvUpTo(ti, k) ==
    IF k = 0 THEN <<>>
    ELSE LET e == EnvUpTo(ti, k - 1)
             ln == selected[ti].lines[k]
         IN IF ln.op = "env"
            THEN EnvLine(e, DispEnviron, selected[ti].params, ln.assigns)
            ELSE e

\* what the statement at entry e can do, from the selected tasks alone
OwnOutcomes(e) ==
    LET ln == selected[e.task].lines[e.line]
    IN IF ln.op = "envbad" THEN {Outcome(<<>>, TRUE, 1)}
       ELSE ExecLineFabric(ln, selected[e.task].params,
                           EnvUpTo(e.task, e.line - 1))

\* the result of target h, from its own session and statements alone
OwnResult(h) ==
    LET n == Len(trace[h])
    IN IF conn[h] = "failed" THEN 1
       ELSE IF n = 0 THEN 0
       ELSE IF trace[h][n].raised THEN 1
       ELSE trace[h][n].ret

\* the targets and what each has done are as they are in a run where the
\* other target never left the pool's queue
AloneState(h) ==
    /\ wti[h] <= Len(selected) => task_env[h] = EnvUpTo(wti[h], wli[h] - 1)
    /\ wti[h] > Len(selected) => task_env[h] = <<>>
    /\ \A i \in 1..Len(trace[h]) :
          Outcome(trace[h][i].cmds, trace[h][i].raised, trace[h][i].ret)
              \in OwnOutcomes(trace[h][i])
    /\ wpc[h] = "returned" => result[h] = OwnResult(h)
    /\ wpc[h] # "returned" => result[h] = -1

\* C18: on every target the scope, the commands of every statement and the
\* result are those the selected tasks, their parameters and the target's
\* own outcomes give, whatever the other targets do; and no step changes
\* the selected tasks.
C18_NoInterference ==
    /\ [](\A h \in Targets : AloneState(h))
    /\ [][selected' = selected]_vars

\* C18 witness: T1 stopped at its first command, T2 passed the same command
\* and is at the next one with the task's env assignment in its scope
C18_Witness ==
    /\ wpc[1] = "returned" /\ result[1] = 2
    /\ Len(trace[1]) = 1
    /\ wpc[2] = "running"
    /\ Len(trace[2]) = 1 /\ ~Failed(trace[2][1])
    /\ trace[2][1].line = trace[1][1].line
    /\ task_env[2] # <<>>
    /\ Running(2)

----------------------------------------------------------------------------
(* Host resolution: main's argument loop, _merge_env_hosts,                *)
(* _normalize_hosts, _dedupe_preserve_order, and _parse_host and _c_for of *)
(* run_host.                                                               *)

\* the leading key=value arguments main consumes
MaxArgs == 3

\* ENV_MAP: name -> a list of hosts, or one comma-separated string
EnvMap ==
    << <<<<"l", "o", "c", "a", "l">>, [kind |-> "list", val |-> << <<"@", "l", "o", "c", "a", "l">> >>]>>,
       <<<<"p", "r", "o", "d">>, [kind |-> "list",
                   val |-> << <<"u", "b", "u", "n", "t", "u", "@", "1", "0", ".", "0", ".", "0", ".", "5", ":", "2", "2">>, <<"p", "u", "n", "k", "@", "1", "0", ".", "4", ".", "4", ".", "4", ":", "2", "4">> >>]>>,
       <<<<"s", "t", "a", "g", "i", "n", "g">>, [kind |-> "str",
                      val |-> <<"s", "t", "a", "g", "i", "n", "g", "@", "1", "0", ".", "1", ".", "2", ".", "3", ":", "2", "2", ",", "s", "t", "a", "g", "i", "n", "g", "@", "1", "0", ".", "1", ".", "2", ".", "4", ":", "2", "2">>]>> >>

\* the values of env=..
EnvArgs == { <<"l", "o", "c", "a", "l">>, <<"p", "r", "o", "d">>, <<"s", "t", "a", "g", "i", "n", "g">>, <<"d", "e", "v">>, <<" ", "p", "r", "o", "d">> }

\* the values of hosts=..
HostsArgs == { <<"u", "b", "u", "n", "t", "u", "@", "1", "0", ".", "0", ".", "0", ".", "5", ",", "h">>, <<" ", "h", " ", ",", " ", ",", "u", "@", "h", ":", "2", "2">>, <<"h", ",", "h">> }

\* the values of host=..
HostArgs == { <<"h">>, <<"u", "@", "h">>, <<"h", ":", "2", "2">>, <<"u", "b", "u", "n", "t", "u", "@", "1", "0", ".", "0", ".", "0", ".", "5">>, <<"@", "l", "o", "c", "a", "l">>, <<" ", "h">> }

\* the values of user=.. and port=..
UserArgs == { <<"u">>, <<"u", "b", "u", "n", "t", "u">> }
PortArgs == { <<"2", "2">>, <<"0", "2", "2">> }

\* s.split(sep) for a one-character sep
RECURSIVE SplitOn(_, _, _)
SplitOn(s, sep, w) ==
    IF s = <<>> THEN <<w>>
    ELSE IF Head(s) = sep THEN <<w>> \o SplitOn(Tail(s), sep, <<>>)
    ELSE SplitOn(Tail(s), sep, Append(w, Head(s)))

\* sep in s
Contains(s, sep) == \E i \in 1..Len(s) : s[i] = sep

\* s.split(sep, 1) of an s that holds sep
SplitFirst(s, sep) ==
    LET i == CHOOSE k \in 1..Len(s) :
                 s[k] = sep /\ \A j \in 1..(k - 1) : s[j] # sep
    IN <<SubSeq(s, 1, i - 1), SubSeq(s, i + 1, Len(s))>>

\* [t.strip() for t in str(s).split(",") if t.strip()]
CommaHosts(s) ==
    LET parts == SplitOn(s, ",", <<>>)
        stripped == [i \in 1..Len(parts) |-> StrStrip(parts[i])]
    IN SelectSeq(stripped, LAMBDA t : t # <<>>)

RECURSIVE ExtendAll(_)
ExtendAll(l) == IF l = <<>> THEN <<>> ELSE CommaHosts(Head(l)) \o ExtendAll(Tail(l))

\* _normalize_hosts(spec), for a list of strings or a string
NormalizeHosts(spec) ==
    IF spec.kind = "list" THEN ExtendAll(spec.val) ELSE CommaHosts(spec.val)

\* _merge_env_hosts(env_names): a name ENV_MAP does not hold is reported
\* and skipped
RECURSIVE MergeEnvHosts(_)
MergeEnvHosts(names) ==
    IF names = <<>> THEN <<>>
    ELSE (IF Head(names) \in DictKeys(EnvMap)
          THEN NormalizeHosts(DictGet(EnvMap, Head(names), <<>>))
          ELSE <<>>)
         \o MergeEnvHosts(Tail(names))

\* _dedupe_preserve_order(items): an item is kept where it is first seen
RECURSIVE DedupePreserveOrder(_)
DedupePreserveOrder(items) ==
    IF items = <<>> THEN <<>>
    ELSE LET front == DedupePreserveOrder(SubSeq(items, 1, Len(items) - 1))
             it == items[Len(items)]
         IN IF \E i \in 1..Len(front) : front[i] = it
            THEN front
            ELSE Append(front, it)

LocalSpec == [local |-> TRUE, user |-> <<>>, host |-> <<>>, port |-> <<>>]

\* _parse_host(h, default_user, default_port); None is <<>>, and int(port)
\* is kept as its decimal text
ParseHost(h, user0, port0) ==
    IF h = <<"@", "l", "o", "c", "a", "l">> THEN LocalSpec
    ELSE LET at == Contains(h, "@")
             user1 == IF at THEN SplitFirst(h, "@")[1] ELSE user0
             host1 == IF at THEN SplitFirst(h, "@")[2] ELSE h
             colon == Contains(host1, ":")
             host2 == IF colon THEN SplitFirst(host1, ":")[1] ELSE host1
             port1 == IF colon THEN SplitFirst(host1, ":")[2] ELSE port0
         IN [local |-> FALSE, user |-> user1, host |-> host2,
             port |-> IF port1 # <<>> THEN IntText(port1) ELSE <<>>]

\* _c_for(spec, ..): the endpoint the Connection is made to, None for local
CFor(spec) ==
    IF spec.local THEN spec
    ELSE [spec EXCEPT !.port = IF @ # <<>> THEN @ ELSE <<"2", "2">>]

\* hosts=v
ArgHosts ==
    /\ hpc = "args" /\ argi < MaxArgs
    /\ \E v \in HostsArgs :
          host_specs' = host_specs \o CommaHosts(v)
    /\ argi' = argi + 1
    /\ UNCHANGED <<env_names, default_user, default_port, merged_hosts, hpc>>
    /\ UNCHANGED restOfHosts

\* host=v
ArgHost ==
    /\ hpc = "args" /\ argi < MaxArgs
    /\ \E v \in HostArgs :
          host_specs' = Append(host_specs, StrStrip(v))
    /\ argi' = argi + 1
    /\ UNCHANGED <<env_names, default_user, default_port, merged_hosts, hpc>>
    /\ UNCHANGED restOfHosts

\* env=v
ArgEnv ==
    /\ hpc = "args" /\ argi < MaxArgs
    /\ \E v \in EnvArgs :
          env_names' = Append(env_names, StrStrip(v))
    /\ argi' = argi + 1
    /\ UNCHANGED <<host_specs, default_user, default_port, merged_hosts, hpc>>
    /\ UNCHANGED restOfHosts

\* user=v
ArgUser ==
    /\ hpc = "args" /\ argi < MaxArgs
    /\ \E v \in UserArgs : default_user' = v
    /\ argi' = argi + 1
    /\ UNCHANGED <<env_names, host_specs, default_port, merged_hosts, hpc>>
    /\ UNCHANGED restOfHosts

\* port=v
ArgPort ==
    /\ hpc = "args" /\ argi < MaxArgs
    /\ \E v \in PortArgs : default_port' = v
    /\ argi' = argi + 1
    /\ UNCHANGED <<env_names, host_specs, default_user, merged_hosts, hpc>>
    /\ UNCHANGED restOfHosts

\* the first task name ends the loop; main resolves the hosts
ResolveHosts ==
    /\ hpc = "args"
    /\ LET env_hosts == MergeEnvHosts(env_names)
           merged == DedupePreserveOrder(env_hosts \o host_specs)
       IN merged_hosts' = IF merged = <<>> THEN << <<"@", "l", "o", "c", "a", "l">> >> ELSE merged
    /\ hpc' = "resolved"
    /\ UNCHANGED <<env_names, host_specs, default_user, default_port, argi>>
    /\ UNCHANGED restOfHosts

\* main before its first argument
HostsInit ==
    /\ env_names = <<>> /\ host_specs = <<>> /\ merged_hosts = <<>>
    /\ default_user = <<>> /\ default_port = <<>> /\ argi = 0
    /\ hpc = "args"
    /\ ScopeIdle /\ DispIdle /\ InterpIdle /\ LoadIdle /\ ParseIdle /\ SelectIdle

HostsNext ==
    \/ ArgHosts
    \/ ArgHost
    \/ ArgEnv
    \/ ArgUser
    \/ ArgPort
    \/ ResolveHosts

SpecHosts == HostsInit /\ [][HostsNext]_vars

----------------------------------------------------------------------------
(* The claim about the resolved target list, checked under SpecHosts.      *)

\* the target run_host dispatches to for the host string h
TargetOf(h) == CFor(ParseHost(h, default_user, default_port))

\* the hosts asked for: those of the env groups, then the ad-hoc ones
Requested == MergeEnvHosts(env_names) \o host_specs

\* the least index at which target t is asked for
FirstAsked(t) ==
    CHOOSE i \in 1..Len(Requested) :
        /\ TargetOf(Requested[i]) = t
        /\ \A j \in 1..(i - 1) : TargetOf(Requested[j]) # t

\* C19: in the resolved list every target asked for appears exactly once,
\* in the order in which the targets were first asked for (env groups before
\* ad-hoc hosts), so that no two workers are given the same target; when
\* nothing was asked for the list is the local target alone.
C19_TargetsDeduplicated ==
    hpc = "resolved" =>
        /\ Requested = <<>> => merged_hosts = << <<"@", "l", "o", "c", "a", "l">> >>
        /\ Requested # <<>> =>
              /\ \A i \in 1..Len(Requested) :
                    \E k \in 1..Len(merged_hosts) :
                        TargetOf(merged_hosts[k]) = TargetOf(Requested[i])
              /\ \A k \in 1..Len(merged_hosts) :
                    \E i \in 1..Len(Requested) :
                        TargetOf(Requested[i]) = TargetOf(merged_hosts[k])
              /\ \A k, l \in 1..Len(merged_hosts) :
                    k < l => FirstAsked(TargetOf(merged_hosts[k]))
                                 < FirstAsked(TargetOf(merged_hosts[l]))
        /\ \A k, l \in 1..Len(merged_hosts) :
              k # l => TargetOf(merged_hosts[k]) # TargetOf(merged_hosts[l])

----------------------------------------------------------------------------
(* The scope of env lines, checked under Spec.                             *)

\* the env lines of task ti before line li
EnvLinesBefore(ti, li) ==
    {k \in 1..(li - 1) : selected[ti].lines[k].op = "env"}

\* the names those lines assign
AssignedBefore(ti, li) ==
    UNION { {selected[ti].lines[k].assigns[j][1] :
                j \in 1..Len(selected[ti].lines[k].assigns)} :
            k \in EnvLinesBefore(ti, li) }

\* in scope env, at line li of task ti, every assignment `k=$n` that follows
\* an assignment to n in its env line gave k the value n had been given
LeftToRight(env, ti, li) ==
    \A k \in EnvLinesBefore(ti, li) :
        LET as == selected[ti].lines[k].assigns IN
        \A i, j \in 1..Len(as) :
            (i < j /\ as[j][2] = <<"$">> \o as[i][1]
                   /\ \A m \in (i + 1)..Len(as) : m # j => as[m][1] # as[i][1]) =>
                DictGet(env, as[j][1], <<>>) = DictGet(env, as[i][1], <<"?">>)

\* the scope is the one the env lines of this task before this line make
ScopedTo(env, ti, li) ==
    /\ DictKeys(env) = AssignedBefore(ti, li)
    /\ LeftToRight(env, ti, li)

----------------------------------------------------------------------------
(* Task selection: main's loop over the task arguments, then the dispatch  *)
(* of the selected tasks.                                                  *)

\* the most task arguments on the command line
MaxTaskArgs == 3

\* BUILTINS: two of its tasks, each one shell line
Builtins ==
    << <<<<"u", "p", "d", "a", "t", "e">>, << [op |-> "shell", arg |-> <<"u">>] >> >>,
       <<<<"i", "n", "s", "t", "a", "l", "l", "-", "b", "a", "s", "e">>, << [op |-> "shell", arg |-> <<"b">>] >> >> >>

\* dsl_tasks: the lines of the tasks the Pfyfile defines
DslTasks ==
    << <<<<"a">>, << [op |-> "env", assigns |-> << <<Na, <<"1">>>> >>],
                  [op |-> "shell", arg |-> <<"$", "a">>] >> >>,
       <<<<"B", "_", "c">>, << [op |-> "envbad"] >> >>,
       <<<<"c">>, << [op |-> "bogus"] >> >> >>

\* "list", "help", "--help"
ReservedNames == << <<"l", "i", "s", "t">>, <<"h", "e", "l", "p">>, <<"-", "-", "h", "e", "l", "p">> >>

\* line 415
ValidTaskNames ==
    DictKeys(Builtins) \cup DictKeys(DslTasks)
        \cup {ReservedNames[i] : i \in 1..Len(ReservedNames)}

UpperCase ==
    <<"A", "B", "C", "D", "E", "F", "G", "H", "I", "J", "K", "L", "M",
      "N", "O", "P", "Q", "R", "S", "T", "U", "V", "W", "X", "Y", "Z">>
LowerCase ==
    <<"a", "b", "c", "d", "e", "f", "g", "h", "i", "j", "k", "l", "m",
      "n", "o", "p", "q", "r", "s", "t", "u", "v", "w", "x", "y", "z">>
Digits == {"0", "1", "2", "3", "4", "5", "6", "7", "8", "9"}

\* s.lower()
Lower(s) ==
    [i \in 1..Len(s) |->
        IF \E k \in 1..26 : UpperCase[k] = s[i]
        THEN LowerCase[CHOOSE k \in 1..26 : UpperCase[k] = s[i]]
        ELSE s[i]]

\* norm(s): re.sub(r"[^a-z0-9]", "", s.lower())
Norm(s) ==
    SelectSeq(Lower(s),
              LAMBDA ch : ch \in Digits \/ \E k \in 1..26 : LowerCase[k] = ch)

\* the keys of an ordered dict, in order
KeyList(d) == [i \in 1..Len(d) |-> d[i][1]]

\* _alias_map(names)
RECURSIVE AliasMapOf(_, _)
AliasMapOf(names, m) ==
    IF names = <<>> THEN m
    ELSE AliasMapOf(Tail(names),
                    DictSet(DictSet(m, Head(names), Head(names)),
                            Norm(Head(names)), Head(names)))

\* lines 420-421: aliasmap_all
AliasMapAll == AliasMapOf(KeyList(Builtins) \o KeyList(DslTasks) \o ReservedNames, <<>>)

\* the task arguments: names, an alias, a name that is none, a reserved
\* word and a parameter
TaskArgs ==
    { <<"u", "p", "d", "a", "t", "e">>, <<"a">>, <<"b", "c">>, <<"c">>, <<"z", "z">>, <<"l", "i", "s", "t">>, <<"a", "=", "1">> }

\* lines 432-436: the k=v arguments that follow a task name
RECURSIVE ParamsFrom(_, _, _)
ParamsFrom(args, j, params) ==
    IF j <= Len(args) /\ Contains(args[j], "=") /\ ~StartsWith(args[j], <<"-", "-">>)
    THEN ParamsFrom(args, j + 1,
                    DictSet(params, SplitFirst(args[j], "=")[1],
                            SplitFirst(args[j], "=")[2]))
    ELSE [params |-> params, j |-> j]

\* lines 423-429: the name the argument stands for, <<>> when it is none
Resolved(tname) ==
    IF tname \in ValidTaskNames THEN tname
    ELSE IF tname \in DictKeys(AliasMapAll) THEN DictGet(AliasMapAll, tname, <<>>)
    ELSE <<>>

AtArg == mpc = "select" /\ sel_j <= Len(sel_args)

\* the worker and dispatch variables, untouched while main selects
workerVars == <<wpc, wti, wli, task_env, rc, conn, closes, trace, result, collected>>

\* lines 400-404: there is no task argument, or the first is help or list
IsUsage ==
    IF sel_args = <<>> THEN TRUE
    ELSE sel_args[1] \in {ReservedNames[i] : i \in 1..Len(ReservedNames)}

\* lines 400-404: the usage or the list is printed and main returns 0
SelectUsage ==
    /\ mpc = "select" /\ sel_j = 1
    /\ IsUsage
    /\ mpc' = "returned"
    /\ rc_total' = 0
    /\ UNCHANGED <<selected, workerVars, selVars>>
    /\ UNCHANGED restOfSelect

\* lines 422-441: one task name with its parameters is added to selected
SelectTask ==
    /\ AtArg /\ ~IsUsage
    /\ LET tname == Resolved(sel_args[sel_j])
           rest == ParamsFrom(sel_args, sel_j + 1, <<>>)
       IN /\ tname \in DictKeys(Builtins) \cup DictKeys(DslTasks)
          /\ selected' = Append(selected,
                 [lines |-> IF tname \in DictKeys(Builtins)
                            THEN DictGet(Builtins, tname, <<>>)
                            ELSE DictGet(DslTasks, tname, <<>>),
                  params |-> rest.params])
          /\ sel_j' = rest.j
    /\ UNCHANGED <<workerVars, rc_total, mpc, sel_args>>
    /\ UNCHANGED restOfSelect

\* lines 425-431: the name is no task and no alias: an error is printed and
\* main returns 1
SelectUnknown ==
    /\ AtArg /\ ~IsUsage
    /\ Resolved(sel_args[sel_j]) = <<>>
    /\ mpc' = "returned"
    /\ rc_total' = 1
    /\ UNCHANGED <<selected, workerVars, selVars>>
    /\ UNCHANGED restOfSelect

\* lines 437-440: a valid name that is in neither BUILTINS nor dsl_tasks:
\* dsl_tasks[tname] raises KeyError, which leaves main
SelectRaises ==
    /\ AtArg /\ ~IsUsage
    /\ Resolved(sel_args[sel_j]) # <<>>
    /\ Resolved(sel_args[sel_j]) \notin DictKeys(Builtins) \cup DictKeys(DslTasks)
    /\ mpc' = "raised"
    /\ UNCHANGED <<selected, workerVars, rc_total, selVars>>
    /\ UNCHANGED restOfSelect

\* lines 483-485: every run_host is submitted to the pool
Dispatch ==
    /\ mpc = "select" /\ sel_j > Len(sel_args) /\ ~IsUsage
    /\ mpc' = "dispatch"
    /\ wpc' = [h \in Targets |-> "submitted"]
    /\ UNCHANGED <<selected, wti, wli, task_env, rc, conn, closes, trace, result,
                   collected, rc_total, selVars>>
    /\ UNCHANGED restOfSelect

\* main at the loop over the task arguments, hosts resolved
SelectInit ==
    /\ sel_args \in SeqsUpTo(TaskArgs, MaxTaskArgs)
    /\ sel_j = 1
    /\ selected = <<>>
    /\ wpc = [h \in Targets |-> "none"]
    /\ wti = [h \in Targets |-> 1]
    /\ wli = [h \in Targets |-> 1]
    /\ task_env = [h \in Targets |-> <<>>]
    /\ rc = [h \in Targets |-> 0]
    /\ conn = [h \in Targets |-> "none"]
    /\ closes = [h \in Targets |-> 0]
    /\ trace = [h \in Targets |-> <<>>]
    /\ result = [h \in Targets |-> -1]
    /\ collected = {}
    /\ rc_total = 0
    /\ mpc = "select"
    /\ ScopeIdle /\ InterpIdle /\ LoadIdle /\ ParseIdle /\ HostsIdle

SelectNext ==
    \/ SelectUsage
    \/ SelectTask
    \/ SelectUnknown
    \/ SelectRaises
    \/ Dispatch
    \/ Next

SpecSelect == SelectInit /\ [][SelectNext]_vars

----------------------------------------------------------------------------
(* The claim about task selection, checked under SpecSelect.               *)

\* the arguments that are read as task names: all but the k=v arguments
\* that follow another argument
NamePositions ==
    {i \in 1..Len(sel_args) : i = 1 \/ ~Contains(sel_args[i], "=")}

\* the name is one main takes for a task: a task of the catalog, "list",
\* "help", "--help", or one of these with only its letters and digits kept
KnownName(name) ==
    \E t \in ValidTaskNames : name = t \/ name = Norm(t)

\* no session was opened and no statement was executed
NothingDispatched ==
    \A h \in Targets : wpc[h] = "none" /\ conn[h] = "none" /\ trace[h] = <<>>

\* C26: when a name among the task arguments of a run is no task and no
\* alias of one, nothing is ever dispatched, and main ends by returning 1.
C26_SelectionValidatedFirst ==
    (~IsUsage /\ \E i \in NamePositions : ~KnownName(sel_args[i])) =>
        /\ NothingDispatched
        /\ mpc \in {"select", "returned"}
        /\ mpc = "returned" => rc_total = 1

----------------------------------------------------------------------------
(* The two front ends on one task of shell statements: run_host on its     *)
(* line form, PfInterpreter on its item form; checked under SpecInterp.    *)

\* run_host's loop over the lines of one task (pf.py 461-477), every line a
\* shell line on the local target: statuses[i] is the exit status of the
\* command of line i. cmds are the commands run, rc is what run_host returns.
RECURSIVE RunHostLines(_, _, _, _, _)
RunHostLines(lines, params, statuses, i, cmds) ==
    IF i > Len(lines) THEN [cmds |-> cmds, rc |-> 0]
    ELSE LET cmd == Interpolate(lines[i].arg, DispEnviron, params, <<>>)
         IN IF StopsOn(statuses[i])
            THEN [cmds |-> Append(cmds, cmd), rc |-> statuses[i]]
            ELSE RunHostLines(lines, params, statuses, i + 1, Append(cmds, cmd))

\* every item of the body is a shell item
ShellOnly(body) ==
    \A i \in 1..Len(body) : body[i].cmd.type = "shell"

\* the same statements as lines of the line-oriented form
LineForm(body) ==
    [i \in 1..Len(body) |-> [op |-> "shell", arg |-> body[i].cmd.text]]

\* the commands the interpreter handed to os.system, and their statuses
PfCommands == [i \in 1..Len(pLog) |-> pLog[i].cmd]
PfStatuses == [i \in 1..Len(pLog) |-> pLog[i].status]

\* C22: a task of shell statements run by PfInterpreter executes the same
\* commands as run_host executes on its line form when the commands end
\* with the same statuses, and both report the same outcome: execute_task
\* has returned with no failure, so run_host returns 0.
C22_FrontEndsAgree ==
    (ppc = "done" /\ ShellOnly(pBody) /\ Len(pLog) = Len(pBody)) =>
        LET r == RunHostLines(LineForm(pBody), pKwargs, PfStatuses, 1, <<>>)
        IN /\ PfCommands = r.cmds
           /\ r.rc = 0

====
